---- MODULE Spec2Model ----
(***************************************************************************)
(* Model of the resilient call gateway (analytics/provider_net.py) and of  *)
(* the quote cascade of the acquisition pipeline                           *)
(* (scripts/run_arc_reactor_update.py).                                    *)
(*                                                                         *)
(* Time is an integer clock.  The gateway's tunables are read from the     *)
(* environment (provider_net.py:24-28); the model runs the gateway under a *)
(* small configuration of them so that a whole retry sequence, the opening *)
(* of the circuit and the end of the cooldown fit in the explored horizon. *)
(***************************************************************************)
EXTENDS Integers, Sequences, FiniteSets, TLC

\* ---------------------------------------------------------------- bounds
\* the clock stops at MaxTime; MaxCalls gateway calls are started in a run
MaxTime == 3
MaxCalls == 3
\* runs of main() in a row
MaxRuns == 3
\* samples of a Monte Carlo simulation (--n)
MaxDraws == 3
\* attempts of the run-until-ready wrapper that are told apart
MaxAttempts == 3

\* -------------------------------------------- configuration of the gateway
\* PROVIDER_MAX_RETRIES (default 3)
_MAX_RETRIES == 3
\* PROVIDER_BACKOFF_BASE_SEC (default 0.6)
_BACKOFF_BASE == 1
\* PROVIDER_BACKOFF_JITTER_SEC (default 0.35)
_BACKOFF_JITTER == 1
\* PROVIDER_CB_FAILURE_THRESHOLD (default 4)
_CIRCUIT_FAILURE_THRESHOLD == 2
\* PROVIDER_CB_OPEN_SEC (default 45)
_CIRCUIT_OPEN_SEC == 2

\* the threads that call the gateway, and the providers they call
Workers == {1, 2}
NoWorker == 0
\* provider_circuit_status runs on a thread of its own while thread 1 makes requests
Requester == {1}
Reader == {2}
Providers == {"fmp", "yahoo"}
\* the provider the requests go to; the status is asked of any provider
Called == {"fmp"}

\* None stands for Python's None in max_retries: Optional[int]
None == -1
\* the values of max_retries the callers pass: the default and explicit ones
MaxRetriesArgs == {None, 0, 1}

\* ------------------------------------------------------------- responses
\* what requests.get produces: a response with a status code, or an exception
StatusCodes == {200, 404, 503}
RETRYABLE_STATUS == {429, 500, 502, 503, 504}
HttpResponse(c) == [kind |-> "http", code |-> c]
Timeout == [kind |-> "timeout", code |-> 0]
TransportError == [kind |-> "transport", code |-> 0]
NoResponse == [kind |-> "none", code |-> 0]
Outcomes == {HttpResponse(c) : c \in StatusCodes} \cup {Timeout}

\* Response.raise_for_status(): raises HTTPError for 4xx and 5xx
RaisesForStatus(r) == r.kind = "http" /\ r.code >= 400 /\ r.code < 600

\* the branch of the try block an outcome takes (provider_net.py:113-125)
IsRetryableStatus(r) == r.kind = "http" /\ r.code \in RETRYABLE_STATUS
AttemptSucceeds(r) == r.kind = "http" /\ ~IsRetryableStatus(r) /\ ~RaisesForStatus(r)

\* str(err) as recorded in last_error; every message is shorter than 500
\* characters, so err[:500] leaves it whole
ErrText(r) ==
    IF r.kind = "http" /\ r.code \in RETRYABLE_STATUS THEN "HTTP retryable"
    ELSE IF r.kind = "http" THEN "HTTPError"
    ELSE IF r.kind = "timeout" THEN "Timeout"
    ELSE "ConnectionError"

\* ----------------------------------------------------------------- state
\* _ProviderState()
ProviderState == [failures |-> 0, open_until_ts |-> 0, last_error |-> ""]

Max(a, b) == IF a >= b THEN a ELSE b

Min3(a, b, c) == IF a <= b /\ a <= c THEN a ELSE IF b <= c THEN b ELSE c

Max3(a, b, c) == IF a >= b /\ a >= c THEN a ELSE IF b >= c THEN b ELSE c

RECURSIVE Pow2(_)
Pow2(n) == IF n = 0 THEN 1 ELSE 2 * Pow2(n - 1)

\* no time: the value of a timestamp that was never taken
Never == 0 - 1

VARIABLES
    now,         \* time.time()
    _STATE,      \* provider -> _ProviderState, created lazily
    _LOCK,       \* the worker holding the lock, or NoWorker
    calls,       \* gateway calls started so far
    pc,          \* per worker: the line of provider_net.py it is about to run
    provider,    \* per worker: argument provider
    retries,     \* per worker: local retries of request_with_resilience
    i,           \* per worker: loop index of the attempt
    resp,        \* per worker: outcome of the latest attempt of the call
    read_now,    \* per worker: local now of _circuit_open / provider_circuit_status
    is_open,     \* per worker: first component of _circuit_open's result
    wait_s,      \* per worker: second component of _circuit_open's result
    sleep_s,     \* per worker: local sleep_s, the argument of time.sleep
    sleeping,    \* per worker: what is left of the running time.sleep
    status,      \* per worker: the dict provider_circuit_status builds
    \* history of the current call, for the properties
    read_until,  \* per worker: the open_until_ts the first read of line 91 saw
    attempts,    \* per worker: requests.get calls started
    sleeps,      \* per worker: time.sleep calls started
    recorded,    \* per worker: increments of failures made
    in_window,   \* per worker: the call's now (line 90) is inside a cooldown window
    reached_at,  \* per provider: when failures last reached the threshold
    \* run_arc_reactor_update.py, main()
    ppc,                  \* the line of main() the run is about to execute
    massive_key,          \* a Massive/Polygon key is configured
    quotes,               \* local quotes: the rows of the frame
    quote_provider_used,  \* local quote_provider_used
    refresh_warnings,     \* local refresh_warnings
    quotes_universe_raw,  \* the file data/raw/quotes_universe_raw.csv
    consulted,            \* history: the quote sources consulted, with their results
    fundamentals_ttm_universe,  \* the file data/processed/fundamentals_ttm_universe.csv
    comps_snapshot,       \* the file data/processed/comps_snapshot.csv
    last_good,            \* per dataset: last_good/<stem>_{latest,<date>}.csv
    ttm_cache,            \* local ttm_cache: the rows of the frame
    n,                    \* position of the loop of line 1094 in UNIVERSE
    ttm_latest,           \* local ttm_latest: ticker -> latest TTM row
    all_ttm,              \* local all_ttm: the TTM rows pulled live
    comps,                \* local comps: the rows of the frame, in order
    fund_result,          \* history: per ticker, what its fundamentals pull did
    fallbacks,            \* history: the fallback steps taken after the quotes
    runs,                 \* the number of the run of main() under way, from 1
    prev_comps,           \* history: the comps the run before handed over
    prev_ttm_latest,      \* history: the ttm_latest the run before ended with
    \* run_arc_reactor_update.py, compute_decision_with_peers_and_news() and after
    spc,                  \* the line the scoring is about to execute
    buckets,              \* local buckets, in tenths of a point
    decision,             \* the DecisionOutput: score, rating, bucket_scores
    decision_summary,     \* the file outputs/decision_summary.json
    peer_ranks,           \* local peer_ranks, in hundredths of a percent
    only_focus,           \* history: no column read so far held a peer's row
    \* build_montecarlo.py, main()
    rng,                  \* the state of the generator of module random
    mc,                   \* per simulation: the line it is at and its locals
    \* montecarlo_dcf.py, run_mc()
    dcf,                  \* the call of run_mc: its line, arguments and locals
    \* run_arc_reactor_until_ready.py, main()
    wrapper               \* the line it is at, its arguments and locals

gvars == <<now, _STATE, _LOCK, calls, pc, provider, retries, i, resp, read_now,
           is_open, wait_s, sleep_s, sleeping, status, read_until, attempts, sleeps,
           recorded, in_window, reached_at>>

\* the variables of main() after the quotes
cvars == <<fundamentals_ttm_universe, comps_snapshot, last_good, ttm_cache, n,
           ttm_latest, all_ttm, comps, fund_result, fallbacks>>

\* the variables that link one run of main() to the next
rvars == <<runs, prev_comps, prev_ttm_latest>>

pvars == <<ppc, massive_key, quotes, quote_provider_used, refresh_warnings,
           quotes_universe_raw, consulted, cvars, rvars>>

\* the variables of the scoring
svars == <<spc, buckets, decision, decision_summary, peer_ranks, only_focus>>

\* the variables of the Monte Carlo sampler, build_montecarlo.py
mvars == <<rng, mc>>

\* the variables of the scripts run beside the pipeline
\* the variables of the DCF Monte Carlo, montecarlo_dcf.py
dvars == <<dcf>>

\* the variables of the run-until-ready wrapper
wvars == <<wrapper>>

scripts == <<mvars, dvars, wvars>>

vars == <<gvars, pvars, svars, scripts>>

\* ------------------------------------------- run_arc_reactor_update.py data
\* UNIVERSE (line 78): the ticker and its peers
UNIVERSE == {"GM", "F"}

\* a quote frame is the set of its rows; a row keeps the source it came from
Frame(source, T) == {[symbol |-> t, source |-> source] : t \in T}
Frames(source) == {Frame(source, T) : T \in SUBSET UNIVERSE}

\* what a call of an adapter comes to: it raises, or returns a frame
Raised == [raised |-> TRUE, df |-> {}]
Returned(df) == [raised |-> FALSE, df |-> df]
\* fetch_quotes (line 1040) may raise or return any frame, the empty one included
FetchOutcomes == {Raised} \cup {Returned(df) : df \in Frames("fmp")}
\* _fetch_quotes_massive catches every exception of its requests and returns
\* the rows it got
MassiveOutcomes == {Returned(df) : df \in Frames("massive")}
\* _fetch_quotes_yahoo returns an empty frame on any exception
YahooOutcomes == {Returned(df) : df \in Frames("yahoo")}

\* data/raw/quotes_universe_raw.csv: absent, not parseable, or a csv of rows
NoFile == [kind |-> "absent", rows |-> {}]
Unreadable == [kind |-> "unreadable", rows |-> {}]
CsvOf(df) == [kind |-> "csv", rows |-> df]
\* what an earlier run may have left on disk
CachedFiles == {NoFile, Unreadable} \cup {CsvOf(df) : df \in Frames("earlier_run")}

\* write_csv (lines 102-104) writes the frame, or raises before it touched the
\* file (mkdir), or raises with the file cut short (to_csv)
WriteResults == {"written", "raises_untouched", "raises_truncated"}
write_csv(file, df, res) ==
    CASE res = "written" -> CsvOf(df)
      [] res = "raises_untouched" -> file
      [] OTHER -> Unreadable

\* UNIVERSE as the list it is (line 78), PRIMARY (line 85), and a ticker of
\* another run's universe (warm_cache_nightly.py runs one ticker at a time)
UniverseOrder == <<"GM", "F">>
PRIMARY == UniverseOrder[1]
OtherTicker == "TM"

\* a field without a value (None / NaN)
Null == "null"

\* required_cols of _ensure_comps_schema (lines 544-559)
required_cols ==
    {"ticker", "price", "market_cap", "period_end", "revenue_ttm",
     "revenue_ttm_yoy_pct", "fcf_ttm", "fcf_ttm_yoy_pct", "fcf_margin_ttm_pct",
     "cash", "debt", "net_debt", "fcf_yield", "net_debt_to_fcf_ttm"}

\* the latest TTM row of a ticker; its figures are named by their source
TtmRow(t, source) == [ticker |-> t, source |-> source]

\* a row of a comps table is a function of its columns; build_comps_snapshot
\* lines 723-765 make it from the quote fields q (market cap and price of the
\* quote row, or Null) and the TTM figures f; fcf_yield needs a market cap
CompsRow(t, q, f) ==
    [c \in required_cols |->
        CASE c = "ticker" -> t
          [] c \in {"price", "market_cap"} -> q
          [] c = "fcf_yield" -> IF q # Null THEN f ELSE Null
          [] OTHER -> f]

\* a row of a comps file that an older layout wrote with fewer columns
NarrowRow(t, q) == [c \in {"ticker", "price"} |-> IF c = "ticker" THEN t ELSE q]

\* a csv of comps rows (a sequence), absent or not parseable
NoTable == [kind |-> "absent", rows |-> << >>]
UnreadableTable == [kind |-> "unreadable", rows |-> << >>]
TableOf(rows) == [kind |-> "csv", rows |-> rows]

\* a file the run has not looked at yet: what earlier runs left of it is
\* settled when the run first reads or writes it
Unseen == [kind |-> "unseen", rows |-> {}]
UnseenTable == [kind |-> "unseen", rows |-> << >>]
\* what a look at disk finds: what the run has seen or written there, or else
\* the file that earlier runs left
Found(file, disk) == IF disk.kind = "unseen" THEN file ELSE disk

\* the datasets main() writes for the whole universe before the news
Datasets == {"quotes_universe_raw", "fundamentals_ttm_universe", "comps_snapshot"}

\* data/processed/fundamentals_ttm_universe.csv as earlier runs may have left it
CachedTtm ==
    {NoFile, Unreadable,
     CsvOf({TtmRow(t, "earlier_run") : t \in {"F"}}),
     CsvOf({TtmRow(t, "earlier_run") : t \in UNIVERSE})}

\* data/processed/comps_snapshot.csv as earlier runs may have left it: for this
\* universe, for another one, or in a layout with fewer columns
CachedComps ==
    {NoTable, UnreadableTable,
     TableOf(<<CompsRow("GM", "earlier_run", "earlier_run"),
               CompsRow("F", "earlier_run", "earlier_run")>>),
     TableOf(<<CompsRow(OtherTicker, "earlier_run", "earlier_run")>>),
     TableOf(<<NarrowRow("F", "earlier_run")>>)}

\* data/processed/last_good/comps_snapshot_latest.csv as earlier runs may have
\* left it
CachedLastGood ==
    {NoTable, UnreadableTable,
     TableOf(<<CompsRow("GM", "earlier_run", "earlier_run"),
               CompsRow("F", "earlier_run", "earlier_run")>>),
     TableOf(<<CompsRow("F", "earlier_run", "earlier_run"),
               CompsRow(OtherTicker, "earlier_run", "earlier_run")>>)}

\* what the fundamentals adapters do for a ticker (build_quarterly_history,
\* lines 656-661): an adapter raises, a quarterly series is empty, or all three
\* series have rows
FundOutcomes == {"raises", "empty_series", "rows"}

\* shutil.copy2 of _snapshot_last_good_csv (lines 156-157)
CopyResults == {"copied", "raises_dated", "raises_latest"}

\* ----------------------------------------------------- data of the scoring
\* a figure _safe_float could not read: Python's None
NoValue == << >>

\* a figure _safe_float read, in the unit of its column: billions of dollars
\* for fcf_ttm, thousandths for fcf_yield, percent for the growth rates and
\* the margin, tenths for net_debt_to_fcf_ttm
Value(v) == <<v>>

\* points are floats in the code: they are counted in tenths of a point
Pts(p) == 10 * p

BucketNames == {"cash_level", "valuation", "growth", "quality", "balance_risk"}

\* buckets of line 816
ZeroBuckets == [k \in BucketNames |-> Pts(0)]

\* the keys of peer_ranks (lines 809-814)
RankNames == {"fcf_yield_pct_rank", "revenue_ttm_yoy_pct_rank", "fcf_ttm_yoy_pct_rank",
              "fcf_margin_ttm_pct_rank"}

\* --------------------------------------------- data of the Monte Carlo runs
\* the simulations of one process
Sims == {"A", "B"}

\* no <T>_MONTECARLO.json written yet
NoOutput == [kind |-> "none"]

\* a simulation that has not been called
NoSim ==
    [pc |-> "idle", n |-> 0, seed |-> 0, price |-> NoValue, bear |-> NoValue,
     base |-> NoValue, bull |-> NoValue, fallback_used |-> FALSE,
     fallback_reason |-> "None", cone_source |-> "dcf_or_decision_core",
     price_source |-> "decision_core", confidence_grade |-> "HIGH",
     sims |-> << >>, out |-> NoOutput,
     \* history
     tiers |-> << >>,        \* the price tiers consulted, in order
     core_held |-> NoValue,  \* price_used of the decision core
     cone_held |-> [bear |-> NoValue, base |-> NoValue, bull |-> NoValue],
     comps_held |-> NoValue, \* the price the comps snapshot held when read
     live_held |-> NoValue]  \* the price the live quote gave when asked

\* run_mc has not been called
NoCall ==
    [pc |-> "idle", n |-> 0, args |-> << >>, drawn |-> 0, vals |-> << >>,
     out |-> NoOutput]

\* run_arc_reactor_until_ready.py has not been started
NotStarted ==
    [pc |-> "idle", max_attempts |-> 0, dns_preflight |-> FALSE, attempt |-> 0,
     returncode |-> 0,
     \* history
     validated |-> 0,   \* calls of _validate_outputs so far
     passed |-> FALSE]  \* the latest call of _validate_outputs passed

\* no DecisionOutput yet, no decision_summary.json yet
NoDecision == [kind |-> "none"]

NoStatus == [open |-> FALSE, open_until_epoch |-> 0, consecutive_failures |-> 0,
             last_error |-> ""]

Init ==
    /\ now = 0
    /\ _STATE = << >>
    /\ _LOCK = NoWorker
    /\ calls = 0
    /\ pc = [w \in Workers |-> "idle"]
    /\ provider = [w \in Workers |-> "fmp"]
    /\ retries = [w \in Workers |-> 0]
    /\ i = [w \in Workers |-> 0]
    /\ resp = [w \in Workers |-> NoResponse]
    /\ read_now = [w \in Workers |-> 0]
    /\ is_open = [w \in Workers |-> FALSE]
    /\ wait_s = [w \in Workers |-> 0]
    /\ sleep_s = [w \in Workers |-> 0]
    /\ sleeping = [w \in Workers |-> 0]
    /\ status = [w \in Workers |-> NoStatus]
    /\ read_until = [w \in Workers |-> 0]
    /\ attempts = [w \in Workers |-> 0]
    /\ sleeps = [w \in Workers |-> 0]
    /\ recorded = [w \in Workers |-> 0]
    /\ in_window = [w \in Workers |-> FALSE]
    /\ reached_at = [p \in Providers |-> Never]
    /\ ppc = "start"
    /\ massive_key = FALSE
    /\ quotes = {}
    /\ quote_provider_used = "none"
    /\ refresh_warnings = << >>
    /\ quotes_universe_raw = NoFile
    /\ consulted = << >>
    /\ fundamentals_ttm_universe = Unseen
    /\ comps_snapshot = UnseenTable
    /\ last_good = [d \in Datasets |-> [latest |-> UnseenTable, dated |-> UnseenTable]]
    /\ ttm_cache = {}
    /\ n = 1
    /\ ttm_latest = << >>
    /\ all_ttm = << >>
    /\ comps = << >>
    /\ fund_result = [t \in UNIVERSE |-> "none"]
    /\ fallbacks = << >>
    /\ runs = 1
    /\ prev_comps = << >>
    /\ prev_ttm_latest = << >>
    /\ spc = "L786"
    /\ buckets = ZeroBuckets
    /\ decision = NoDecision
    /\ decision_summary = NoDecision
    /\ peer_ranks = [k \in RankNames |-> NoValue]
    /\ only_focus = TRUE
    /\ rng = 0
    /\ mc = [s \in Sims |-> NoSim]
    /\ dcf = NoCall
    /\ wrapper = NotStarted

\* _state(provider): the map after the get-or-create done under the lock
_state(S, p) == IF p \in DOMAIN S THEN S ELSE (p :> ProviderState) @@ S

\* a worker that is not inside a gateway function
Resting == {"idle", "returned", "circuit_open", "failed", "status_done"}

\* the cooldown window (t, t + cooldown) that follows the time t at which
\* provider p's failures reached the threshold
InWindow(p) ==
    /\ reached_at[p] # Never
    /\ now >= reached_at[p]
    /\ now < reached_at[p] + _CIRCUIT_OPEN_SEC

\* the locals of a call, as they are when a function is entered
EnterCall(w, p) ==
    /\ calls' = calls + 1
    /\ provider' = [provider EXCEPT ![w] = p]
    /\ retries' = [retries EXCEPT ![w] = 0]
    /\ i' = [i EXCEPT ![w] = 0]
    /\ resp' = [resp EXCEPT ![w] = NoResponse]
    /\ read_now' = [read_now EXCEPT ![w] = 0]
    /\ is_open' = [is_open EXCEPT ![w] = FALSE]
    /\ wait_s' = [wait_s EXCEPT ![w] = 0]
    /\ sleep_s' = [sleep_s EXCEPT ![w] = 0]
    /\ sleeping' = [sleeping EXCEPT ![w] = 0]
    /\ status' = [status EXCEPT ![w] = NoStatus]
    /\ read_until' = [read_until EXCEPT ![w] = 0]
    /\ attempts' = [attempts EXCEPT ![w] = 0]
    /\ sleeps' = [sleeps EXCEPT ![w] = 0]
    /\ recorded' = [recorded EXCEPT ![w] = 0]

\* ------------------------------------------------ request_with_resilience
\* entry, and line 89 of _circuit_open: s = _state(provider)
request_with_resilience(w, p) ==
    /\ pc[w] \in Resting
    /\ calls < MaxCalls
    /\ _LOCK = NoWorker
    /\ _STATE' = _state(_STATE, p)
    /\ pc' = [pc EXCEPT ![w] = "L90"]
    /\ EnterCall(w, p)
    /\ UNCHANGED <<now, _LOCK, in_window, reached_at>>
    /\ UNCHANGED <<pvars, svars, scripts>>

\* _circuit_open lines 90-91: now = _now(); the read of s.open_until_ts > now
circuit_open_is_open(w) ==
    /\ pc[w] = "L90"
    /\ read_now' = [read_now EXCEPT ![w] = now]
    /\ is_open' = [is_open EXCEPT ![w] = _STATE[provider[w]].open_until_ts > now]
    /\ read_until' = [read_until EXCEPT ![w] = _STATE[provider[w]].open_until_ts]
    /\ in_window' = [in_window EXCEPT ![w] = InWindow(provider[w])]
    /\ pc' = [pc EXCEPT ![w] = "L91"]
    /\ UNCHANGED <<now, _STATE, _LOCK, calls, provider, retries, i, resp, wait_s,
                   sleep_s, sleeping, status, attempts, sleeps, recorded, reached_at>>
    /\ UNCHANGED <<pvars, svars, scripts>>

\* line 108: retries = _MAX_RETRIES if max_retries is None else int(max_retries)
Retries(mr) == IF mr = None THEN _MAX_RETRIES ELSE mr

\* _circuit_open line 91, the second read: max(0.0, s.open_until_ts - now); then
\* line 105 goes on to the raise, or lines 108-114 start the first attempt of a
\* call made with max_retries = mr (is_open and wait_s are not read again)
circuit_open_wait_s(w, mr) ==
    /\ pc[w] = "L91"
    /\ IF is_open[w]
         THEN /\ mr = None
              /\ wait_s' = [wait_s EXCEPT ![w] =
                              Max(0, _STATE[provider[w]].open_until_ts - read_now[w])]
              /\ pc' = [pc EXCEPT ![w] = "L106"]
              /\ UNCHANGED <<retries, attempts, read_now, read_until, is_open>>
         ELSE /\ pc' = [pc EXCEPT ![w] = "L114"]
              /\ retries' = [retries EXCEPT ![w] = Retries(mr)]
              /\ attempts' = [attempts EXCEPT ![w] = @ + 1]
              /\ read_now' = [read_now EXCEPT ![w] = 0]
              /\ read_until' = [read_until EXCEPT ![w] = 0]
              /\ UNCHANGED <<wait_s, is_open>>
    /\ UNCHANGED <<now, _STATE, _LOCK, calls, provider, i, resp, sleep_s, sleeping, status,
                   sleeps, recorded, in_window, reached_at>>
    /\ UNCHANGED <<pvars, svars, scripts>>

\* line 106: raise RuntimeError("Circuit open ...; retry after {wait_s}")
raise_circuit_open(w) ==
    /\ pc[w] = "L106"
    /\ pc' = [pc EXCEPT ![w] = "circuit_open"]
    /\ read_now' = [read_now EXCEPT ![w] = 0]
    /\ read_until' = [read_until EXCEPT ![w] = 0]
    /\ is_open' = [is_open EXCEPT ![w] = FALSE]
    /\ in_window' = [in_window EXCEPT ![w] = FALSE]
    /\ UNCHANGED <<now, _STATE, _LOCK, calls, provider, retries, i, resp, wait_s,
                   sleep_s, sleeping, status, attempts, sleeps, recorded, reached_at>>
    /\ UNCHANGED <<pvars, svars, scripts>>

\* _record_failure line 82, under the lock: s.failures += 1
FailuresAfterFailure(f) == f + 1

\* lines 114-125: the attempt comes back with a retryable status, with a status
\* raise_for_status() raises for, or with an exception; _record_failure takes the
\* lock and counts the failure
record_failure_count(w, r) ==
    /\ pc[w] = "L114"
    /\ ~AttemptSucceeds(r)
    /\ _LOCK = NoWorker
    /\ _LOCK' = w
    /\ resp' = [resp EXCEPT ![w] = r]
    /\ _STATE' = [_STATE EXCEPT ![provider[w]].failures = FailuresAfterFailure(@)]
    /\ recorded' = [recorded EXCEPT ![w] =
                      @ + _STATE'[provider[w]].failures - _STATE[provider[w]].failures]
    /\ pc' = [pc EXCEPT ![w] = "L83"]
    /\ UNCHANGED <<now, calls, provider, retries, i, read_now, is_open, wait_s,
                   sleep_s, sleeping, status, read_until, attempts, sleeps, in_window,
                   reached_at>>
    /\ UNCHANGED <<pvars, svars, scripts>>

\* _record_failure line 83: s.last_error = err[:500]
record_failure_last_error(w) ==
    /\ pc[w] = "L83"
    /\ _STATE' = [_STATE EXCEPT ![provider[w]].last_error = ErrText(resp[w])]
    /\ pc' = [pc EXCEPT ![w] = "L84"]
    /\ UNCHANGED <<now, _LOCK, calls, provider, retries, i, resp, read_now, is_open,
                   wait_s, sleep_s, sleeping, status, read_until, attempts, sleeps, recorded,
                   in_window, reached_at>>
    /\ UNCHANGED <<pvars, svars, scripts>>

\* the circuit opens one failure late
OpensCircuit_late(f) == f > _CIRCUIT_FAILURE_THRESHOLD

\* _record_failure line 84: if s.failures >= _CIRCUIT_FAILURE_THRESHOLD
OpensCircuit(f) == f >= _CIRCUIT_FAILURE_THRESHOLD

\* line 112: for i in range(retries + 1)
InRange(idx, r) == idx < r + 1

\* a sleep after every attempt, the last one too
SleepsAfter_every(idx, r) == idx <= r

\* line 127: if i < retries
SleepsAfter(idx, r) == idx < r

\* line 128: _BACKOFF_BASE * (2 ** i) + random.uniform(0.0, _BACKOFF_JITTER)
Backoff(idx, jitter) == _BACKOFF_BASE * Pow2(idx) + jitter

\* line 112 takes the next index of the loop and line 114 starts the attempt,
\* or the loop is over and line 131 raises
NextAttempt(w) ==
    IF InRange(i[w] + 1, retries[w])
      THEN /\ i' = [i EXCEPT ![w] = @ + 1]
           /\ attempts' = [attempts EXCEPT ![w] = @ + 1]
           /\ pc' = [pc EXCEPT ![w] = "L114"]
           /\ UNCHANGED in_window
      ELSE /\ i' = [i EXCEPT ![w] = 0]
           /\ pc' = [pc EXCEPT ![w] = "failed"]
           /\ in_window' = [in_window EXCEPT ![w] = FALSE]
           /\ UNCHANGED attempts

\* _record_failure lines 84-85 and the release of the lock; then lines 127-129
\* start the backoff sleep, or the loop goes on without one
record_failure_open(w, jitter) ==
    /\ pc[w] = "L84"
    /\ IF OpensCircuit(_STATE[provider[w]].failures)
         THEN /\ _STATE' = [_STATE EXCEPT ![provider[w]].open_until_ts =
                                            now + _CIRCUIT_OPEN_SEC]
              /\ reached_at' = [reached_at EXCEPT ![provider[w]] = now]
         ELSE UNCHANGED <<_STATE, reached_at>>
    /\ _LOCK' = NoWorker
    /\ IF SleepsAfter(i[w], retries[w])
         THEN /\ sleep_s' = [sleep_s EXCEPT ![w] = Backoff(i[w], jitter)]
              /\ sleeping' = [sleeping EXCEPT ![w] = Backoff(i[w], jitter)]
              /\ sleeps' = [sleeps EXCEPT ![w] = @ + 1]
              /\ pc' = [pc EXCEPT ![w] = "L129"]
              /\ UNCHANGED <<i, resp, attempts, in_window>>
         ELSE /\ jitter = 0
              /\ NextAttempt(w)
              /\ resp' = [resp EXCEPT ![w] = NoResponse]
              /\ UNCHANGED <<sleep_s, sleeping, sleeps>>
    /\ UNCHANGED <<now, calls, provider, retries, read_now, is_open, wait_s, status,
                   read_until, recorded>>
    /\ UNCHANGED <<pvars, svars, scripts>>

\* line 129: time.sleep returns, and the loop goes on
sleep_returns(w) ==
    /\ pc[w] = "L129"
    /\ sleeping[w] = 0
    /\ NextAttempt(w)
    /\ resp' = [resp EXCEPT ![w] = NoResponse]
    /\ sleep_s' = [sleep_s EXCEPT ![w] = 0]
    /\ UNCHANGED <<now, _STATE, _LOCK, calls, provider, retries, read_now, is_open,
                   wait_s, sleeping, status, read_until, sleeps, recorded,
                   reached_at>>
    /\ UNCHANGED <<pvars, svars, scripts>>

\* lines 114-121: the attempt comes back with a status that is neither retryable
\* nor an error; _record_success takes the lock, line 74: s.failures = 0
record_success_failures(w, r) ==
    /\ pc[w] = "L114"
    /\ AttemptSucceeds(r)
    /\ _LOCK = NoWorker
    /\ _LOCK' = w
    /\ resp' = [resp EXCEPT ![w] = r]
    /\ _STATE' = [_STATE EXCEPT ![provider[w]].failures = 0]
    /\ pc' = [pc EXCEPT ![w] = "L75"]
    /\ UNCHANGED <<now, calls, provider, retries, i, read_now, is_open, wait_s,
                   sleep_s, sleeping, status, read_until, attempts, sleeps, recorded,
                   in_window, reached_at>>
    /\ UNCHANGED <<pvars, svars, scripts>>

\* a success that leaves the circuit as it is
record_success_open_until_kept(w) ==
    /\ pc[w] = "L75"
    /\ pc' = [pc EXCEPT ![w] = "L76"]
    /\ UNCHANGED <<now, _STATE, _LOCK, calls, provider, retries, i, resp, read_now,
                   is_open, wait_s, sleep_s, sleeping, status, read_until, attempts,
                   sleeps, recorded, in_window, reached_at>>
    /\ UNCHANGED <<pvars, svars, scripts>>

\* _record_success line 75: s.open_until_ts = 0.0
record_success_open_until(w) ==
    /\ pc[w] = "L75"
    /\ _STATE' = [_STATE EXCEPT ![provider[w]].open_until_ts = 0]
    /\ pc' = [pc EXCEPT ![w] = "L76"]
    /\ UNCHANGED <<now, _LOCK, calls, provider, retries, i, resp, read_now, is_open,
                   wait_s, sleep_s, sleeping, status, read_until, attempts, sleeps, recorded,
                   in_window, reached_at>>
    /\ UNCHANGED <<pvars, svars, scripts>>

\* _record_success line 76: s.last_error = "", the release of the lock, and
\* line 122: return r
record_success_last_error(w) ==
    /\ pc[w] = "L76"
    /\ _STATE' = [_STATE EXCEPT ![provider[w]].last_error = ""]
    /\ _LOCK' = NoWorker
    /\ pc' = [pc EXCEPT ![w] = "returned"]
    /\ i' = [i EXCEPT ![w] = 0]
    /\ resp' = [resp EXCEPT ![w] = NoResponse]
    /\ in_window' = [in_window EXCEPT ![w] = FALSE]
    /\ UNCHANGED <<now, calls, provider, retries, read_now, is_open, wait_s,
                   sleep_s, sleeping, status, read_until, attempts, sleeps, recorded,
                   reached_at>>
    /\ UNCHANGED <<pvars, svars, scripts>>

\* ------------------------------------------------ provider_circuit_status
\* entry, and line 54: s = _state(provider)
provider_circuit_status(w, p) ==
    /\ pc[w] \in Resting
    /\ calls < MaxCalls
    /\ _LOCK = NoWorker
    /\ _STATE' = _state(_STATE, p)
    /\ pc' = [pc EXCEPT ![w] = "L55"]
    /\ EnterCall(w, p)
    /\ UNCHANGED <<now, _LOCK, in_window, reached_at>>
    /\ UNCHANGED <<pvars, svars, scripts>>

\* lines 55 and 58: now = _now(); "open": bool(s.open_until_ts > now)
status_open(w) ==
    /\ pc[w] = "L55"
    /\ read_now' = [read_now EXCEPT ![w] = now]
    /\ status' = [status EXCEPT ![w].open = _STATE[provider[w]].open_until_ts > now]
    /\ pc' = [pc EXCEPT ![w] = "L59"]
    /\ UNCHANGED <<now, _STATE, _LOCK, calls, provider, retries, i, resp, is_open,
                   wait_s, sleep_s, sleeping, read_until, attempts, sleeps,
                   recorded, in_window, reached_at>>
    /\ UNCHANGED <<pvars, svars, scripts>>

\* line 59: "open_until_epoch": s.open_until_ts
status_open_until_epoch(w) ==
    /\ pc[w] = "L59"
    /\ status' = [status EXCEPT ![w].open_until_epoch =
                                  _STATE[provider[w]].open_until_ts]
    /\ pc' = [pc EXCEPT ![w] = "L60"]
    /\ UNCHANGED <<now, _STATE, _LOCK, calls, provider, retries, i, resp, read_now,
                   is_open, wait_s, sleep_s, sleeping, read_until, attempts, sleeps,
                   recorded, in_window, reached_at>>
    /\ UNCHANGED <<pvars, svars, scripts>>

\* line 60: "consecutive_failures": s.failures
status_consecutive_failures(w) ==
    /\ pc[w] = "L60"
    /\ status' = [status EXCEPT ![w].consecutive_failures =
                                  _STATE[provider[w]].failures]
    /\ pc' = [pc EXCEPT ![w] = "L61"]
    /\ UNCHANGED <<now, _STATE, _LOCK, calls, provider, retries, i, resp, read_now,
                   is_open, wait_s, sleep_s, sleeping, read_until, attempts, sleeps,
                   recorded, in_window, reached_at>>
    /\ UNCHANGED <<pvars, svars, scripts>>

\* line 61: "last_error": s.last_error or None; the dict is returned
status_last_error(w) ==
    /\ pc[w] = "L61"
    /\ status' = [status EXCEPT ![w].last_error = _STATE[provider[w]].last_error]
    /\ pc' = [pc EXCEPT ![w] = "status_done"]
    /\ UNCHANGED <<now, _STATE, _LOCK, calls, provider, retries, i, resp, read_now,
                   is_open, wait_s, sleep_s, sleeping, read_until, attempts, sleeps,
                   recorded, in_window, reached_at>>
    /\ UNCHANGED <<pvars, svars, scripts>>

\* ------------------------------------------------------------------ clock
\* a clock whose passing forgets the failures of a provider whose cooldown ends
Tick_expiring ==
    /\ now < MaxTime
    /\ now' = now + 1
    /\ sleeping' = [w \in Workers |-> Max(0, sleeping[w] - 1)]
    /\ _STATE' = [p \in DOMAIN _STATE |->
                    IF _STATE[p].open_until_ts # 0 /\ _STATE[p].open_until_ts <= now'
                      THEN [_STATE[p] EXCEPT !.failures = 0]
                      ELSE _STATE[p]]
    /\ UNCHANGED <<_LOCK, calls, pc, provider, retries, i, resp, read_now,
                   is_open, wait_s, sleep_s, status, read_until, attempts, sleeps, recorded,
                   in_window, reached_at>>
    /\ UNCHANGED <<pvars, svars, scripts>>

\* a second passes, for the clock and for every sleeping worker
Tick ==
    /\ now < MaxTime
    /\ now' = now + 1
    /\ sleeping' = [w \in Workers |-> Max(0, sleeping[w] - 1)]
    /\ UNCHANGED <<_STATE, _LOCK, calls, pc, provider, retries, i, resp, read_now,
                   is_open, wait_s, sleep_s, status, read_until, attempts, sleeps, recorded,
                   in_window, reached_at>>
    /\ UNCHANGED <<pvars, svars, scripts>>

\* the steps of request_with_resilience on thread w
RequestStep(w) ==
    \/ \E p \in Called : request_with_resilience(w, p)
    \/ circuit_open_is_open(w)
    \/ \E mr \in MaxRetriesArgs : circuit_open_wait_s(w, mr)
    \/ raise_circuit_open(w)
    \/ \E r \in Outcomes : record_failure_count(w, r)
    \/ record_failure_last_error(w)
    \/ \E jitter \in 0.._BACKOFF_JITTER : record_failure_open(w, jitter)
    \/ sleep_returns(w)
    \/ \E r \in Outcomes : record_success_failures(w, r)
    \/ record_success_open_until(w)
    \/ record_success_last_error(w)

\* the steps of provider_circuit_status on thread w
StatusStep(w) ==
    \/ \E p \in Providers : provider_circuit_status(w, p)
    \/ status_open(w)
    \/ status_open_until_epoch(w)
    \/ status_consecutive_failures(w)
    \/ status_last_error(w)

\* two threads call request_with_resilience concurrently
Next ==
    \/ \E w \in Workers : RequestStep(w)
    \/ Tick

Spec == Init /\ [][Next]_vars

\* one thread calls request_with_resilience while another reads the status
StatusNext ==
    \/ \E w \in Requester : RequestStep(w)
    \/ \E w \in Reader : StatusStep(w)
    \/ Tick

StatusSpec == Init /\ [][StatusNext]_vars

\* ------------------------------------------------------------ properties
\* the pcs at which a call has started a network attempt
Attempting == {"L114", "L83", "L84", "L129", "L75", "L76"}

\* the circuit of provider p is open
CircuitOpen(p) == p \in DOMAIN _STATE /\ _STATE[p].open_until_ts > now

\* C1: once failures has reached the threshold at time t, a call that begins
\* inside (t, t + cooldown) makes no network attempt: it only runs the circuit
\* check and raises the circuit-open error.
C1_CallsInWindowFailFast ==
    \A w \in Workers : in_window[w] => pc[w] \in {"L91", "L106"}

\* C2: a call whose circuit check finds open_until_ts in the future raises the
\* circuit-open error with retry_after = open_until_ts - now > 0, having made no
\* attempt, no sleep and no write to the provider's state.
C2_OpenCallFailsWithRetryAfter ==
    \A w \in Workers :
        pc[w] = "L106" =>
            /\ wait_s[w] = read_until[w] - read_now[w]
            /\ wait_s[w] > 0
            /\ attempts[w] = 0
            /\ sleeps[w] = 0
            /\ recorded[w] = 0

\* C3: no thread has a network attempt to p under way that it started while p's
\* circuit was open.
C3_NoAttemptStartsWhileOpen ==
    [][\A w \in Workers :
          (attempts'[w] = attempts[w] + 1) => ~CircuitOpen(provider[w])]_vars

\* C4: a call whose first k attempts failed and whose attempt k+1 succeeds
\* returns after exactly k+1 attempts and k sleeps, and at its return the
\* provider's failures is 0 and open_until_ts is cleared.
C4_SuccessAfterFailures ==
    [][\A w \in Workers :
          (pc[w] = "L76" /\ pc'[w] = "returned") =>
              /\ attempts'[w] = recorded'[w] + 1
              /\ sleeps'[w] = recorded'[w]
              /\ _STATE'[provider[w]].failures = 0
              /\ _STATE'[provider[w]].open_until_ts = 0]_vars

\* a call that returned its response after two failed attempts
C4_Witness ==
    \E w \in Workers :
        pc[w] = "returned" /\ recorded[w] = 2 /\ attempts[w] = 3 /\ sleeps[w] = 2

\* C5 as claimed: a call that fails after its retries has incremented failures
\* once, and a failed attempt that another attempt follows has not changed it.
C5_FailedCallCountsOnce ==
    \A w \in Workers :
        /\ pc[w] = "failed" => recorded[w] = 1
        /\ pc[w] = "L129" => recorded[w] = 0

\* C5 amended: failures counts failed attempts. Every failed attempt increments
\* it by one, whether or not another attempt of the call follows, so a call that
\* fails has incremented it once per attempt; and a failed attempt sets
\* open_until_ts to now + cooldown exactly when it leaves failures at or above
\* the threshold.
C5_FailedAttemptsCount ==
    [][\A w \in Workers :
          /\ (pc[w] = "L114" /\ pc'[w] = "L83") =>
                _STATE'[provider[w]].failures = _STATE[provider[w]].failures + 1
          /\ (pc[w] = "L84" /\ pc'[w] # "L84") =>
                _STATE'[provider[w]].open_until_ts =
                    IF _STATE[provider[w]].failures >= _CIRCUIT_FAILURE_THRESHOLD
                      THEN now + _CIRCUIT_OPEN_SEC
                      ELSE _STATE[provider[w]].open_until_ts
          /\ (pc[w] = "L84" /\ pc'[w] = "failed") =>
                recorded[w] = attempts[w] /\ attempts[w] = retries[w] + 1]_vars

\* a call made with max_retries = 1 failed after two attempts, each of which
\* incremented failures, and the circuit the second one opened is still open
C5_Witness ==
    \E w \in Workers :
        /\ pc[w] = "failed"
        /\ retries[w] = 1
        /\ recorded[w] = 2
        /\ _STATE[provider[w]].failures = _CIRCUIT_FAILURE_THRESHOLD
        /\ CircuitOpen(provider[w])

\* the outcomes the claim lets the gateway retry
Retried(r) == IsRetryableStatus(r) \/ r.kind \in {"timeout", "transport"}

\* C6: only timeouts, transport failures and HTTP 429/500/502/503/504 are
\* retried: a call never sleeps towards another attempt after a response with
\* any other HTTP error status.
C6_OnlyRetryableRetried ==
    \A w \in Workers : pc[w] = "L129" => Retried(resp[w])

\* C7: a call makes at most max_retries + 1 attempts, the failure is raised after
\* the last of them, exactly one sleep separates consecutive attempts, the sleep
\* after attempt index i lasts between base*2^i and base*2^i + jitter, and no
\* sleep follows the final attempt.
C7_BoundedAttemptsAndBackoff ==
    \A w \in Workers :
        /\ attempts[w] <= retries[w] + 1
        /\ pc[w] = "failed" => attempts[w] = retries[w] + 1 /\ sleeps[w] = retries[w]
        /\ pc[w] \in {"L114", "L83", "L84", "L75", "L76", "returned"} =>
              sleeps[w] = attempts[w] - 1
        /\ pc[w] = "L129" =>
              /\ sleeps[w] = attempts[w]
              /\ attempts[w] = i[w] + 1
              /\ i[w] < retries[w]
              /\ sleep_s[w] >= _BACKOFF_BASE * Pow2(i[w])
              /\ sleep_s[w] <= _BACKOFF_BASE * Pow2(i[w]) + _BACKOFF_JITTER

\* a call made with max_retries = 1 failed after its two attempts and one sleep,
\* and a call made with the default max_retries sleeps its third, jittered backoff
C7_Witness ==
    /\ \E w \in Workers :
          pc[w] = "failed" /\ retries[w] = 1 /\ attempts[w] = 2 /\ sleeps[w] = 1
    /\ \E w \in Workers :
          /\ pc[w] = "L129"
          /\ retries[w] = _MAX_RETRIES
          /\ i[w] = 2
          /\ sleep_s[w] = 4 * _BACKOFF_BASE + _BACKOFF_JITTER

\* the record a gateway function finds for p: every access goes through _state
Lookup(S, p) == IF p \in DOMAIN S THEN S[p] ELSE ProviderState

\* what every record satisfies whenever no update is under way
RecordConsistent(r) ==
    /\ r.open_until_ts > 0 => r.failures >= _CIRCUIT_FAILURE_THRESHOLD
    /\ r.failures = 0 <=> r.last_error = ""

\* between updates the records are consistent: an update is atomic for whoever
\* holds the lock
RecordsConsistentUnlocked ==
    _LOCK = NoWorker => \A p \in DOMAIN _STATE : RecordConsistent(_STATE[p])

\* C8: a status result is a snapshot of the record: open and open_until_epoch
\* come from one value of open_until_ts, and the fields are those of a record
\* between two updates, never of a partially applied one (no open circuit with
\* consecutive_failures below the threshold, no zero failures with an error).
C8_StatusIsASnapshot ==
    \A w \in Reader :
        pc[w] = "status_done" =>
            /\ status[w].open <=> status[w].open_until_epoch > read_now[w]
            /\ RecordConsistent([failures |-> status[w].consecutive_failures,
                                 open_until_ts |-> status[w].open_until_epoch,
                                 last_error |-> status[w].last_error])

\* C9 as claimed: no step of provider_circuit_status changes the map.
C9_StatusLeavesMapUnchanged ==
    [][\A w \in Reader : pc'[w] # pc[w] => _STATE' = _STATE]_vars

\* C9 amended: provider_circuit_status changes no record of the map and not what
\* a later call finds for any provider; for a provider that has no record yet it
\* adds the default record, which is what a later call would have created.
C9_StatusKeepsRecords ==
    [][\A w \in Reader :
          pc'[w] # pc[w] =>
              /\ DOMAIN _STATE \subseteq DOMAIN _STATE'
              /\ \A p \in Providers : Lookup(_STATE', p) = Lookup(_STATE, p)]_vars

\* the status of a provider never called before has been read while another
\* provider's record counts failures, and that provider now has a record
C9_Witness ==
    \E w \in Reader :
        /\ pc[w] = "status_done"
        /\ provider[w] = "yahoo"
        /\ "yahoo" \in DOMAIN _STATE
        /\ "fmp" \in DOMAIN _STATE
        /\ _STATE["fmp"].failures > 0

\* ------------------------------------------------ main(): quote acquisition
\* lines 1007-1038: the run starts with the environment it finds (a Massive key
\* or none, the raw quote file an earlier run left or none)
main(key, file) ==
    /\ ppc = "start"
    /\ massive_key' = key
    /\ quotes_universe_raw' = file
    /\ UNCHANGED cvars
    /\ refresh_warnings' = IF ~key THEN <<"Massive API key missing">> ELSE << >>
    /\ quote_provider_used' = "none"
    /\ quotes' = {}
    /\ consulted' = << >>
    /\ ppc' = "L1039"
    /\ UNCHANGED gvars
    /\ UNCHANGED <<rvars, svars, scripts>>

\* main() is run again after a run that got to line 1154: the locals start
\* afresh, the environment and the files are the ones the run before left
main_again ==
    /\ ppc = "L1154"
    /\ runs < MaxRuns
    /\ runs' = runs + 1
    /\ prev_comps' = comps
    /\ prev_ttm_latest' = ttm_latest
    /\ refresh_warnings' = IF ~massive_key THEN <<"Massive API key missing">> ELSE << >>
    /\ quote_provider_used' = "none"
    /\ quotes' = {}
    /\ consulted' = << >>
    /\ ttm_cache' = {}
    /\ n' = 1
    /\ ttm_latest' = << >>
    /\ all_ttm' = << >>
    /\ comps' = << >>
    /\ fund_result' = [t \in UNIVERSE |-> "none"]
    /\ fallbacks' = << >>
    /\ ppc' = "L1039"
    /\ UNCHANGED <<massive_key, quotes_universe_raw, fundamentals_ttm_universe,
                   comps_snapshot, last_good, gvars, svars, scripts>>

\* the record of a consulted source, under the name quote_provider_used gives it
Consulted(source, o) == [source |-> source, raised |-> o.raised, rows |-> o.df]

\* lines 1039-1047: the primary pull; o is what fetch_quotes does, wr what
\* write_csv does if it is called
quotes_fmp(o, wr) ==
    /\ ppc = "L1039"
    /\ consulted' = Append(consulted, Consulted("fmp_paid", o))
    /\ IF o.raised
         THEN /\ wr = "written"
              /\ refresh_warnings' = Append(refresh_warnings, "Primary quote pull failed")
              /\ UNCHANGED <<quotes, quote_provider_used, quotes_universe_raw>>
         ELSE /\ quotes' = o.df
              /\ IF o.df # {}
                   THEN /\ quote_provider_used' = "fmp_paid"
                        /\ quotes_universe_raw' = write_csv(quotes_universe_raw, o.df, wr)
                        /\ refresh_warnings' =
                             IF wr = "written" THEN refresh_warnings
                             ELSE Append(refresh_warnings, "Primary quote pull failed")
                   ELSE /\ wr = "written"
                        /\ refresh_warnings' =
                             Append(refresh_warnings, "Quote pull returned zero rows.")
                        /\ UNCHANGED <<quote_provider_used, quotes_universe_raw>>
    /\ ppc' = "L1048"
    /\ UNCHANGED <<massive_key, cvars, gvars>>
    /\ UNCHANGED <<rvars, svars, scripts>>

\* lines 1051-1055 and 1061-1065: a fallback adapter returned frame df; a
\* non-empty one replaces quotes and is written to the raw file
Recover(source, label, df, wr) ==
    IF df # {}
      THEN /\ quotes' = df
           /\ quote_provider_used' = source
           /\ quotes_universe_raw' = write_csv(quotes_universe_raw, df, wr)
           /\ refresh_warnings' =
                IF wr = "written"
                  THEN Append(refresh_warnings, "Quote pull recovered via " \o label \o " fallback.")
                  ELSE Append(refresh_warnings, label \o " quote fallback failed")
      ELSE /\ wr = "written"
           /\ UNCHANGED <<quotes, quote_provider_used, quotes_universe_raw,
                          refresh_warnings>>

\* line 1048: if quotes.empty and massive_key
TriesMassive(q, key) == q = {} /\ key

\* lines 1048-1057: the Massive fallback
quotes_massive(o, wr) ==
    /\ ppc = "L1048"
    /\ IF TriesMassive(quotes, massive_key)
         THEN /\ consulted' = Append(consulted, Consulted("massive", o))
              /\ Recover("massive", "Massive", o.df, wr)
         ELSE /\ o = Returned({})
              /\ wr = "written"
              /\ UNCHANGED <<quotes, quote_provider_used, quotes_universe_raw,
                             refresh_warnings, consulted>>
    /\ ppc' = "L1058"
    /\ UNCHANGED <<massive_key, cvars, gvars>>
    /\ UNCHANGED <<rvars, svars, scripts>>

\* a fallback that does not look at what the earlier sources returned
TriesYahoo_always(q) == TRUE

\* line 1058: if quotes.empty
TriesYahoo(q) == q = {}

\* lines 1058-1067: the Yahoo fallback
quotes_yahoo(o, wr) ==
    /\ ppc = "L1058"
    /\ IF TriesYahoo(quotes)
         THEN /\ consulted' = Append(consulted, Consulted("yahoo_public", o))
              /\ Recover("yahoo_public", "Yahoo", o.df, wr)
         ELSE /\ o = Returned({})
              /\ wr = "written"
              /\ UNCHANGED <<quotes, quote_provider_used, quotes_universe_raw,
                             refresh_warnings, consulted>>
    /\ ppc' = "L1068"
    /\ UNCHANGED <<massive_key, cvars, gvars>>
    /\ UNCHANGED <<rvars, svars, scripts>>

\* line 1068: if quotes.empty
TriesCache(q) == q = {}

\* pd.read_csv of the raw file (line 1072): the rows of a csv, or an exception
read_csv(file) == IF file.kind = "csv" THEN Returned(file.rows) ELSE Raised

\* lines 1068-1079: the raw quote file of an earlier run
quotes_raw_cache ==
    /\ ppc = "L1068"
    /\ IF TriesCache(quotes)
         THEN IF quotes_universe_raw.kind # "absent"
                THEN /\ consulted' = Append(consulted,
                                       Consulted("raw_cache", read_csv(quotes_universe_raw)))
                     /\ IF read_csv(quotes_universe_raw).raised
                          THEN /\ refresh_warnings' = Append(refresh_warnings,
                                     "Quote cache exists but could not be read.")
                               /\ UNCHANGED <<quotes, quote_provider_used>>
                          ELSE /\ quotes' = read_csv(quotes_universe_raw).df
                               /\ quote_provider_used' = "raw_cache"
                               /\ refresh_warnings' = Append(refresh_warnings,
                                     "Quote hydration from cache completed for full universe coverage.")
                ELSE /\ quote_provider_used' = "unavailable"
                     /\ refresh_warnings' = Append(refresh_warnings,
                           "Quote fallback unavailable; price/market cap may be missing.")
                     /\ UNCHANGED <<quotes, consulted>>
         ELSE UNCHANGED <<quotes, quote_provider_used, refresh_warnings, consulted>>
    /\ ppc' = "L1081"
    /\ UNCHANGED <<massive_key, quotes_universe_raw, cvars, gvars>>
    /\ UNCHANGED <<rvars, svars, scripts>>

\* one run of main() up to line 1080
AcquireNext ==
    \/ \E key \in BOOLEAN, file \in CachedFiles : main(key, file)
    \/ \E o \in FetchOutcomes, wr \in WriteResults : quotes_fmp(o, wr)
    \/ \E o \in MassiveOutcomes, wr \in WriteResults : quotes_massive(o, wr)
    \/ \E o \in YahooOutcomes, wr \in WriteResults : quotes_yahoo(o, wr)
    \/ quotes_raw_cache

AcquireSpec == Init /\ [][AcquireNext]_vars

\* ------------------------------------------ main(): fundamentals and comps
\* lines 1082-1092: the locals of the fundamentals loop, and the cached TTM
\* universe (an absent or unreadable file gives an empty frame)
read_ttm_cache(file) ==
    /\ ppc = "L1081"
    /\ fundamentals_ttm_universe' = Found(file, fundamentals_ttm_universe)
    /\ ttm_cache' = IF Found(file, fundamentals_ttm_universe).kind = "csv"
                      THEN Found(file, fundamentals_ttm_universe).rows
                      ELSE {}
    /\ ttm_latest' = << >>
    /\ all_ttm' = << >>
    /\ n' = 1
    /\ ppc' = "L1094"
    /\ UNCHANGED <<massive_key, quotes, quote_provider_used, refresh_warnings,
                   quotes_universe_raw, consulted, comps_snapshot, last_good, comps,
                   fund_result, fallbacks, gvars>>
    /\ UNCHANGED <<rvars, svars, scripts>>

\* a fallback step, and what it was about (a quote source, a ticker)
Fallback(step, what) == [step |-> step, what |-> what]

\* lines 1107-1118: the cached TTM row of ticker t, if the cache has one
CachedTtmRows(cache, t) == {r \in cache : r.ticker = t}

\* a loop that an exception of the pull leaves
LoopGoesOn_until_failure(k, o) == k < Len(UniverseOrder) /\ o = "rows"

\* line 1094: the loop takes the next ticker whatever the pull of ticker k did
\* (lines 1104 and 1117 catch every exception)
LoopGoesOn(k, o) == k < Len(UniverseOrder)

\* lines 1094-1118: one pass of the loop, for the ticker UNIVERSE[n]; o is what
\* build_quarterly_history does
fundamentals(o) ==
    /\ ppc = "L1094"
    /\ LET t == UniverseOrder[n] IN
         /\ fund_result' = [fund_result EXCEPT ![t] = o]
         /\ IF o = "rows"
              THEN /\ all_ttm' = Append(all_ttm, TtmRow(t, "live"))
                   /\ ttm_latest' = (t :> TtmRow(t, "live")) @@ ttm_latest
                   /\ UNCHANGED <<refresh_warnings, fallbacks>>
              ELSE /\ UNCHANGED all_ttm
                   /\ IF CachedTtmRows(ttm_cache, t) # {}
                        THEN /\ ttm_latest' =
                                  (t :> CHOOSE r \in CachedTtmRows(ttm_cache, t) : TRUE)
                                    @@ ttm_latest
                             /\ fallbacks' = fallbacks \o
                                  <<Fallback("fundamentals_failed", t),
                                    Fallback("fundamentals_recovered", t)>>
                             /\ refresh_warnings' =
                                  refresh_warnings \o
                                    <<"Fundamentals refresh failed for " \o t,
                                      "Fundamentals for " \o t
                                        \o " recovered from cached TTM snapshot.">>
                        ELSE /\ UNCHANGED ttm_latest
                             /\ fallbacks' = Append(fallbacks,
                                                    Fallback("fundamentals_failed", t))
                             /\ refresh_warnings' =
                                  Append(refresh_warnings,
                                         "Fundamentals refresh failed for " \o t)
    /\ n' = n + 1
    /\ ppc' = IF LoopGoesOn(n, o) THEN "L1094" ELSE "L1120"
    /\ UNCHANGED <<massive_key, quotes, quote_provider_used, quotes_universe_raw,
                   consulted, fundamentals_ttm_universe, comps_snapshot, last_good,
                   ttm_cache, comps, gvars>>
    /\ UNCHANGED <<rvars, svars, scripts>>

\* lines 1120-1126: the quarterly and TTM universe files are written when a
\* ticker was pulled live; write_csv is not guarded here, so an exception of it
\* ends the run
write_fundamentals(wr) ==
    /\ ppc = "L1120"
    /\ IF all_ttm # << >>
         THEN /\ fundamentals_ttm_universe' =
                   write_csv(fundamentals_ttm_universe,
                             {all_ttm[k] : k \in DOMAIN all_ttm}, wr)
              /\ ppc' = IF wr = "written" THEN "L1128" ELSE "raised"
         ELSE /\ wr = "written"
              /\ ppc' = "L1128"
              /\ UNCHANGED fundamentals_ttm_universe
    /\ UNCHANGED <<massive_key, quotes, quote_provider_used, refresh_warnings,
                   quotes_universe_raw, consulted, comps_snapshot, last_good,
                   ttm_cache, n, ttm_latest, all_ttm, comps, fund_result, fallbacks,
                   gvars>>
    /\ UNCHANGED <<rvars, svars, scripts>>

\* build_comps_snapshot lines 716-719 and 723-726: the quote fields of ticker t
QuoteOf(q, t) ==
    IF \E r \in q : r.symbol = t
      THEN (CHOOSE r \in q : r.symbol = t).source
      ELSE Null

\* build_comps_snapshot: one row per entry of ttm_latest, in insertion order
build_comps_snapshot(latest, q) ==
    LET ts == SelectSeq(UniverseOrder, LAMBDA t : t \in DOMAIN latest)
    IN  [k \in 1..Len(ts) |-> CompsRow(ts[k], QuoteOf(q, ts[k]), latest[ts[k]].source)]

\* a schema check that lets the frame through as it came
_ensure_comps_schema_asis(rows) == rows

\* _ensure_comps_schema: every row gets exactly the required columns, a
\* missing one filled with None
_ensure_comps_schema(rows) ==
    [k \in 1..Len(rows) |->
        [c \in required_cols |-> IF c \in DOMAIN rows[k] THEN rows[k][c] ELSE Null]]

\* write_csv for a comps table
write_table(file, rows, res) ==
    CASE res = "written" -> TableOf(rows)
      [] res = "raises_untouched" -> file
      [] OTHER -> UnreadableTable

\* lines 1128-1140: comps from the TTM rows and the quotes, written when it has
\* rows (not guarded); otherwise the cached comps_snapshot.csv, if it is there
build_comps(wr, file) ==
    /\ ppc = "L1128"
    /\ LET built == IF ttm_latest # << >>
                      THEN _ensure_comps_schema(build_comps_snapshot(ttm_latest, quotes))
                      ELSE << >>
           cache_comps == Found(file, comps_snapshot)
       IN IF built # << >>
            THEN /\ comps' = built
                 /\ comps_snapshot' = write_table(comps_snapshot, built, wr)
                 /\ ppc' = IF wr = "written" THEN "L1141" ELSE "raised"
                 /\ UNCHANGED <<refresh_warnings, fallbacks>>
            ELSE /\ wr = "written"
                 /\ comps_snapshot' = cache_comps
                 /\ ppc' = "L1141"
                 /\ IF cache_comps.kind = "csv"
                      THEN /\ comps' = _ensure_comps_schema(cache_comps.rows)
                           /\ fallbacks' = Append(fallbacks,
                                                  Fallback("cached_comps", "comps_snapshot"))
                           /\ refresh_warnings' = Append(refresh_warnings,
                                "Using cached comps_snapshot.csv due to refresh failure.")
                      ELSE /\ comps' = << >>
                           /\ UNCHANGED fallbacks
                           /\ refresh_warnings' =
                                IF cache_comps.kind = "unreadable"
                                  THEN Append(refresh_warnings,
                                         "comps_snapshot.csv cache exists but could not be read.")
                                  ELSE refresh_warnings
    /\ UNCHANGED <<massive_key, quotes, quote_provider_used, quotes_universe_raw,
                   consulted, fundamentals_ttm_universe, last_good, ttm_cache, n,
                   ttm_latest, all_ttm, fund_result, gvars>>
    /\ UNCHANGED <<rvars, svars, scripts>>

\* the tickers of a comps table
Tickers(rows) == {rows[k]["ticker"] : k \in DOMAIN rows}

\* a bootstrap row that leaves the quote fields empty
BootstrapRow_noquote(q, primary) == CompsRow(primary, Null, Null)

\* lines 578-604: the row of the primary ticker made from its quote alone
BootstrapRow(q, primary) == CompsRow(primary, QuoteOf(q, primary), Null)

\* line 1141, _bootstrap_primary_row: a comps table without the primary ticker
\* gets a row with the quote fields of the primary and no fundamentals
bootstrap_primary_row ==
    /\ ppc = "L1141"
    /\ LET out == _ensure_comps_schema(comps) IN
         IF PRIMARY \in Tickers(out)
           THEN /\ comps' = out
                /\ UNCHANGED <<refresh_warnings, fallbacks>>
           ELSE /\ comps' = Append(out, BootstrapRow(quotes, PRIMARY))
                /\ fallbacks' = Append(fallbacks, Fallback("bootstrap", PRIMARY))
                /\ refresh_warnings' = Append(refresh_warnings,
                     "Primary ticker " \o PRIMARY
                       \o " was missing from comps snapshot; inserted bootstrap row"
                       \o (IF QuoteOf(quotes, PRIMARY) # Null
                             THEN " with live quote fields."
                             ELSE " with null fundamentals."))
    /\ ppc' = "L1142"
    /\ UNCHANGED <<massive_key, quotes, quote_provider_used, quotes_universe_raw,
                   consulted, fundamentals_ttm_universe, comps_snapshot, last_good,
                   ttm_cache, n, ttm_latest, all_ttm, fund_result, gvars>>
    /\ UNCHANGED <<rvars, svars, scripts>>

\* drop_duplicates(subset=["ticker"], keep="first")
RECURSIVE drop_duplicates(_)
drop_duplicates(rows) ==
    IF rows = << >> THEN << >>
    ELSE LET front == drop_duplicates(SubSeq(rows, 1, Len(rows) - 1))
             last == rows[Len(rows)]
         IN  IF last["ticker"] \in Tickers(front) THEN front ELSE Append(front, last)

\* lines 621-622: the tickers of the universe a comps table has no row for
Missing(rows) == {t \in UNIVERSE : t \notin Tickers(rows)}

\* lines 636-646: the rows of last_good that belong to missing tickers (add)
\* are appended
AddRows(out, lg) ==
    SelectSeq(_ensure_comps_schema(lg), LAMBDA r : r["ticker"] \in Missing(out))
Hydrated(out, lg) == drop_duplicates(out \o AddRows(out, lg))

\* line 1142, _hydrate_missing_comps_from_last_good: file is what
\* last_good/comps_snapshot_latest.csv holds, looked at only when a ticker of
\* the universe is missing
hydrate_missing_comps(file) ==
    /\ ppc = "L1142"
    /\ LET out == _ensure_comps_schema(comps)
           lg == Found(file, last_good["comps_snapshot"].latest)
       IN
         IF Missing(out) = {}
           THEN /\ comps' = out
                /\ UNCHANGED <<last_good, refresh_warnings, fallbacks>>
           ELSE /\ last_good' = [last_good EXCEPT !["comps_snapshot"].latest = lg]
                /\ IF lg.kind = "csv" /\ AddRows(out, lg.rows) # << >>
                     THEN /\ comps' = _ensure_comps_schema(Hydrated(out, lg.rows))
                          /\ fallbacks' = Append(fallbacks,
                                                 Fallback("hydrated", "last_good"))
                          /\ refresh_warnings' = Append(refresh_warnings,
                               "Restored missing peer comps from last_good cache")
                     ELSE /\ comps' = out
                          /\ UNCHANGED fallbacks
                          /\ refresh_warnings' =
                               IF lg.kind = "unreadable"
                                 THEN Append(refresh_warnings,
                                        "last_good comps snapshot exists but could not be read.")
                                 ELSE refresh_warnings
    /\ ppc' = "L1143"
    /\ UNCHANGED <<massive_key, quotes, quote_provider_used, quotes_universe_raw,
                   consulted, fundamentals_ttm_universe, comps_snapshot, ttm_cache, n,
                   ttm_latest, all_ttm, fund_result, gvars>>
    /\ UNCHANGED <<rvars, svars, scripts>>

\* a coverage check that never succeeds
CoversUniverse_never(rows) == FALSE

\* line 1149: required and required.issubset(present)
CoversUniverse(rows) == UNIVERSE \subseteq Tickers(rows)

\* _snapshot_last_good_csv (lines 147-157) of a comps_snapshot.csv that holds
\* rows: the dated copy, then the latest copy; cp is what shutil.copy2 does
_snapshot_last_good_csv(lg, file, cp) ==
    IF file.kind # "csv" \/ file.rows = << >>
      THEN lg
      ELSE CASE cp = "copied" -> [latest |-> file, dated |-> file]
             [] cp = "raises_latest" -> [lg EXCEPT !.dated = file]
             [] OTHER -> lg

\* lines 1143-1152: comps is written to comps_snapshot.csv (not guarded), and
\* snapshotted to last_good when it covers the universe (exceptions dropped)
write_comps_snapshot(wr, cp) ==
    /\ ppc = "L1143"
    /\ comps_snapshot' = write_table(comps_snapshot, comps, wr)
    /\ IF wr = "written"
         THEN /\ ppc' = "L1154"
              /\ IF CoversUniverse(comps)
                   THEN last_good' =
                          [last_good EXCEPT !["comps_snapshot"] =
                              _snapshot_last_good_csv(@, TableOf(comps), cp)]
                   ELSE /\ cp = "copied"
                        /\ UNCHANGED last_good
         ELSE /\ cp = "copied"
              /\ ppc' = "raised"
              /\ UNCHANGED last_good
    /\ UNCHANGED <<massive_key, quotes, quote_provider_used, refresh_warnings,
                   quotes_universe_raw, consulted, fundamentals_ttm_universe,
                   ttm_cache, n, ttm_latest, all_ttm, comps, fund_result, fallbacks,
                   gvars>>
    /\ UNCHANGED <<rvars, svars, scripts>>

\* the steps of main() after the quotes, up to line 1153
CompsStep ==
    \/ \E file \in CachedTtm : read_ttm_cache(file)
    \/ \E o \in FundOutcomes : fundamentals(o)
    \/ \E wr \in WriteResults : write_fundamentals(wr)
    \/ \E wr \in WriteResults, file \in CachedComps : build_comps(wr, file)
    \/ bootstrap_primary_row
    \/ \E file \in CachedLastGood : hydrate_missing_comps(file)
    \/ \E wr \in WriteResults, cp \in CopyResults : write_comps_snapshot(wr, cp)

\* one run of main() up to line 1153, for every behaviour of the providers and
\* every state of the cache files
PipelineNext == AcquireNext \/ CompsStep

PipelineSpec == Init /\ [][PipelineNext]_vars

\* what the adapters give when every provider is healthy and the upstream data
\* is the same from run to run
HealthyQuotes == Returned(Frame("fmp", UNIVERSE))

\* runs of main() in a row with every provider healthy, unchanged upstream
\* data and a disk that takes every write; the first run finds the files that
\* earlier runs left, whatever they are
RerunNext ==
    \/ \E key \in BOOLEAN, file \in CachedFiles : main(key, file)
    \/ main_again
    \/ quotes_fmp(HealthyQuotes, "written")
    \/ quotes_massive(Returned({}), "written")
    \/ quotes_yahoo(Returned({}), "written")
    \/ quotes_raw_cache
    \/ \E file \in CachedTtm : read_ttm_cache(file)
    \/ fundamentals("rows")
    \/ write_fundamentals("written")
    \/ \E file \in CachedComps : build_comps("written", file)
    \/ bootstrap_primary_row
    \/ \E file \in CachedLastGood : hydrate_missing_comps(file)
    \/ write_comps_snapshot("written", "copied")

RerunSpec == Init /\ [][RerunNext]_vars

\* runs of main() in a row in which the fundamentals pull of any ticker may
\* fail in any run; the quotes are healthy and the disk takes every write, and
\* nothing but main() touches the files between the runs
OutageNext ==
    \/ \E key \in BOOLEAN, file \in CachedFiles : main(key, file)
    \/ main_again
    \/ quotes_fmp(HealthyQuotes, "written")
    \/ quotes_massive(Returned({}), "written")
    \/ quotes_yahoo(Returned({}), "written")
    \/ quotes_raw_cache
    \/ \E file \in CachedTtm : read_ttm_cache(file)
    \/ \E o \in FundOutcomes : fundamentals(o)
    \/ write_fundamentals("written")
    \/ \E file \in CachedComps : build_comps("written", file)
    \/ bootstrap_primary_row
    \/ \E file \in CachedLastGood : hydrate_missing_comps(file)
    \/ write_comps_snapshot("written", "copied")

OutageSpec == Init /\ [][OutageNext]_vars

\* ------------------------------------------------------------- the scoring
\* _clamp (lines 183-184)
_clamp_as_is(x, lo, hi) == x
_clamp(x, lo, hi) == Max(lo, IF hi <= x THEN hi ELSE x)

\* round() of a float given in tenths: to the nearest whole number, a tie to
\* the even one; int() of the result changes nothing
round(x) ==
    LET whole == x \div 10
        tenths == x % 10
    IN  IF tenths < 5 THEN whole
        ELSE IF tenths > 5 THEN whole + 1
        ELSE IF whole % 2 = 0 THEN whole ELSE whole + 1

\* pd.to_numeric(series, errors="coerce").dropna() of line 188
Numeric(series) == SelectSeq(series, LAMBDA e : e # NoValue)

\* _rank_percentile (lines 187-192) with higher_is_better: the percentage of
\* the column's figures that are <= value, in hundredths of a percent
_rank_percentile(series, value) ==
    LET s == Numeric(series)
    IN  IF Len(s) = 0 \/ value = NoValue THEN NoValue
        ELSE Value((Len(SelectSeq(s, LAMBDA e : e[1] <= value[1])) * 10000) \div Len(s))

\* the column of comps the rank is taken in: the focus row first (line 793),
\* then the peers' rows
Column(value, peers) == <<value>> \o peers

\* the points of a rank: w75 from the 75th percentile on, w50 from the 50th,
\* w25 from the 25th, w0 below (lines 851-859, 887-890, 908-909)
RankPoints(rank, w75, w50, w25, w0) ==
    IF rank = NoValue THEN 0
    ELSE IF rank[1] >= 7500 THEN w75
    ELSE IF rank[1] >= 5000 THEN w50
    ELSE IF rank[1] >= 2500 THEN w25
    ELSE w0

\* Cash Level (lines 819-833)
cash_level(fcf_ttm) ==
    IF fcf_ttm = NoValue THEN Pts(0)
    ELSE IF fcf_ttm[1] >= 12 THEN Pts(25)
    ELSE IF fcf_ttm[1] >= 8 THEN Pts(21)
    ELSE IF fcf_ttm[1] >= 4 THEN Pts(15)
    ELSE IF fcf_ttm[1] >= 1 THEN Pts(8)
    ELSE Pts(3)

\* Valuation (lines 836-861)
valuation(fcf_yield, rank_fcf_yield) ==
    LET absolute ==
            IF fcf_yield = NoValue THEN 0
            ELSE IF fcf_yield[1] >= 80 THEN 10
            ELSE IF fcf_yield[1] >= 60 THEN 8
            ELSE IF fcf_yield[1] >= 40 THEN 5
            ELSE IF fcf_yield[1] >= 25 THEN 3
            ELSE 1
        val_points == Pts(absolute + RankPoints(rank_fcf_yield, 10, 7, 4, 2))
    IN  _clamp(val_points, Pts(0), Pts(20))

\* Growth (lines 864-892)
growth(rev_yoy, fcf_yoy, rank_rev_yoy, rank_fcf_yoy) ==
    LET rev ==
            IF rev_yoy = NoValue THEN 0
            ELSE IF rev_yoy[1] >= 20 THEN 6
            ELSE IF rev_yoy[1] >= 10 THEN 4
            ELSE IF rev_yoy[1] >= 5 THEN 2
            ELSE IF rev_yoy[1] < 0 THEN 0 - 3
            ELSE 0
        fcf ==
            IF fcf_yoy = NoValue THEN 0
            ELSE IF fcf_yoy[1] >= 40 THEN 6
            ELSE IF fcf_yoy[1] >= 15 THEN 4
            ELSE IF fcf_yoy[1] >= 5 THEN 2
            ELSE IF fcf_yoy[1] < 0 THEN 0 - 5
            ELSE 0
        g == Pts(rev + fcf + RankPoints(rank_rev_yoy, 4, 3, 2, 1)
                 + RankPoints(rank_fcf_yoy, 4, 3, 2, 1))
    IN  _clamp(g, Pts(0), Pts(20))

\* Quality (lines 895-911)
quality(margin, rank_margin) ==
    LET absolute ==
            IF margin = NoValue THEN 0
            ELSE IF margin[1] >= 18 THEN 9
            ELSE IF margin[1] >= 12 THEN 7
            ELSE IF margin[1] >= 8 THEN 5
            ELSE IF margin[1] >= 4 THEN 3
            ELSE 1
        q == Pts(absolute + RankPoints(rank_margin, 6, 4, 3, 2))
    IN  _clamp(q, Pts(0), Pts(15))

\* Balance/Risk (lines 914-961)
balance_risk(nd_fcf, neg_7d, shock_7d, core_hits, proxy7) ==
    LET debt ==
            IF nd_fcf = NoValue THEN 2
            ELSE IF nd_fcf[1] >= 30 THEN 8
            ELSE IF nd_fcf[1] >= 15 THEN 4
            ELSE 0
        negatives ==
            IF neg_7d >= 6 THEN 8
            ELSE IF neg_7d >= 3 THEN 5
            ELSE IF neg_7d >= 1 THEN 2
            ELSE 0
        shock ==
            IF shock_7d <= 0 - 10 THEN 4
            ELSE IF shock_7d <= 0 - 6 THEN 2
            ELSE 0
        core ==
            IF core_hits >= 6 THEN 4
            ELSE IF core_hits >= 3 THEN 2
            ELSE 0
        mood ==
            IF proxy7 = NoValue THEN 0
            ELSE IF proxy7[1] <= 25 THEN 0 - 4
            ELSE IF proxy7[1] <= 35 THEN 0 - 2
            ELSE IF proxy7[1] >= 70 THEN 1
            ELSE 0
        b == Pts(20 - debt - negatives - shock - core + mood)
    IN  _clamp(b, Pts(0), Pts(20))

\* sum(buckets.values()) of line 963
SumOf(b) ==
    b["cash_level"] + b["valuation"] + b["growth"] + b["quality"] + b["balance_risk"]

\* line 964
Rating(score) == IF score >= 80 THEN "BUY" ELSE IF score >= 65 THEN "HOLD" ELSE "AVOID"

\* lines 963-981: the DecisionOutput
DecisionOutput(b) ==
    LET score == round(_clamp(SumOf(b), Pts(0), Pts(100)))
    IN  [kind |-> "decision",
         score |-> score,
         rating |-> Rating(score),
         bucket_scores |-> [k \in BucketNames |-> round(b[k])]]

\* lines 1239-1240: what a failed freshness SLA makes of the decision
Overridden_rating_only(d) == [d EXCEPT !.rating = "AVOID"]
Overridden(d) ==
    [d EXCEPT !.rating = "AVOID", !.score = IF d.score <= 45 THEN d.score ELSE 45]

\* a peer's figure above every figure of the focus ticker, and one below
High == Value(1000)
Low == Value(0 - 1000)

\* the peers' figures in a column of comps, by the rank they give the focus
\* ticker: alone (100%), 4 of 5 (80%), 2 of 3 (66%), 1 of 3 (33%), 1 of 5 (20%)
Alone == << >>
Pct80 == <<Low, Low, Low, High>>
Pct66 == <<Low, High>>
Pct33 == <<High, High>>
Pct20 == <<High, High, High, High>>

\* fcf_ttm of the focus row: no figure, and one in every band of lines 823-832
FcfTtmValues == {NoValue} \cup {Value(v) : v \in {0 - 1, 1, 4, 8, 12}}

\* fcf_yield of the focus row with the peers' column: no figure, and every
\* band of lines 840-849 and of lines 852-859
ValuationInputs ==
    {<<NoValue, <<High>>>>, <<Value(0 - 10), Pct20>>, <<Value(25), Pct33>>,
     <<Value(40), Pct66>>, <<Value(60), Pct80>>, <<Value(80), Alone>>}

\* revenue_ttm_yoy_pct and fcf_ttm_yoy_pct of the focus row with the peers'
\* columns: no figures, and every band of lines 866-885 and 888-890
GrowthInputs ==
    {<<NoValue, Alone, NoValue, Alone>>,
     <<NoValue, <<High>>, NoValue, <<NoValue>>>>,
     <<Value(0 - 5), Pct20, Value(0 - 5), Pct20>>,
     <<Value(0), Pct33, Value(0), Pct33>>,
     <<Value(5), Pct66, Value(5), Pct66>>,
     <<Value(10), Pct80, Value(15), Pct80>>,
     <<Value(20), Alone, Value(40), Alone>>}

\* fcf_margin_ttm_pct of the focus row with the peers' column: no figure, and
\* every band of lines 897-906 and of line 909
QualityInputs ==
    {<<NoValue, Alone>>, <<Value(0 - 2), Pct20>>, <<Value(4), Pct33>>,
     <<Value(8), Pct66>>, <<Value(12), Pct80>>, <<Value(18), Alone>>}

\* net_debt_to_fcf_ttm of the focus row: no figure, and every band of lines
\* 916-920
NetDebtValues == {NoValue} \cup {Value(v) : v \in {0, 15, 30}}

\* news_summary (line 1235) and news_proxy_row (lines 1213-1217): every band
\* of lines 928-957
Neg7dValues == {0, 1, 3, 6}
Shock7dValues == {0, 0 - 6, 0 - 10}
CoreHitsValues == {0, 3, 6}
Proxy7Values == {NoValue} \cup {Value(v) : v \in {25, 35, 50, 70}}

\* lines 787-793: the row of PRIMARY, or RuntimeError
find_primary_row(present) ==
    /\ spc = "L786"
    /\ spc' = IF present THEN "L816" ELSE "raised"
    /\ UNCHANGED <<buckets, decision, decision_summary, peer_ranks, only_focus, gvars, pvars, scripts>>

\* lines 816-833
score_cash_level(fcf_ttm) ==
    /\ spc = "L816"
    /\ buckets' = [ZeroBuckets EXCEPT !["cash_level"] = cash_level(fcf_ttm)]
    /\ spc' = "L836"
    /\ UNCHANGED <<decision, decision_summary, peer_ranks, only_focus, gvars, pvars, scripts>>

\* lines 836-861, with the rank of line 804
score_valuation(fcf_yield, peers) ==
    /\ spc = "L836"
    /\ peer_ranks' = [peer_ranks EXCEPT !["fcf_yield_pct_rank"] =
            _rank_percentile(Column(fcf_yield, peers), fcf_yield)]
    /\ buckets' = [buckets EXCEPT !["valuation"] =
            valuation(fcf_yield, peer_ranks'["fcf_yield_pct_rank"])]
    /\ only_focus' = (only_focus /\ peers = Alone)
    /\ spc' = "L864"
    /\ UNCHANGED <<decision, decision_summary, gvars, pvars, scripts>>

\* lines 864-892, with the ranks of lines 805-806
score_growth(rev_yoy, rev_peers, fcf_yoy, fcf_peers) ==
    /\ spc = "L864"
    /\ peer_ranks' = [peer_ranks EXCEPT
            !["revenue_ttm_yoy_pct_rank"] =
                _rank_percentile(Column(rev_yoy, rev_peers), rev_yoy),
            !["fcf_ttm_yoy_pct_rank"] =
                _rank_percentile(Column(fcf_yoy, fcf_peers), fcf_yoy)]
    /\ buckets' = [buckets EXCEPT !["growth"] =
            growth(rev_yoy, fcf_yoy, peer_ranks'["revenue_ttm_yoy_pct_rank"],
                   peer_ranks'["fcf_ttm_yoy_pct_rank"])]
    /\ only_focus' = (only_focus /\ rev_peers = Alone /\ fcf_peers = Alone)
    /\ spc' = "L895"
    /\ UNCHANGED <<decision, decision_summary, gvars, pvars, scripts>>

\* lines 895-911, with the rank of line 807
score_quality(margin, peers) ==
    /\ spc = "L895"
    /\ peer_ranks' = [peer_ranks EXCEPT !["fcf_margin_ttm_pct_rank"] =
            _rank_percentile(Column(margin, peers), margin)]
    /\ buckets' = [buckets EXCEPT !["quality"] =
            quality(margin, peer_ranks'["fcf_margin_ttm_pct_rank"])]
    /\ only_focus' = (only_focus /\ peers = Alone)
    /\ spc' = "L914"
    /\ UNCHANGED <<decision, decision_summary, gvars, pvars, scripts>>

\* lines 914-961
score_balance_risk(nd_fcf, neg_7d, shock_7d, core_hits, proxy7) ==
    /\ spc = "L914"
    /\ buckets' = [buckets EXCEPT !["balance_risk"] =
            balance_risk(nd_fcf, neg_7d, shock_7d, core_hits, proxy7)]
    /\ spc' = "L963"
    /\ UNCHANGED <<decision, decision_summary, peer_ranks, only_focus, gvars, pvars, scripts>>

\* lines 963-981, and line 1236 that takes the result
compute_decision_with_peers_and_news ==
    /\ spc = "L963"
    /\ decision' = DecisionOutput(buckets)
    /\ spc' = "L1237"
    /\ UNCHANGED <<buckets, decision_summary, peer_ranks, only_focus, gvars, pvars, scripts>>

\* lines 1237-1246: passed is _freshness_sla_snapshot(...)["passed"]
freshness_sla(passed) ==
    /\ spc = "L1237"
    /\ decision' = IF passed THEN decision ELSE Overridden(decision)
    /\ spc' = "L1458"
    /\ UNCHANGED <<buckets, decision_summary, peer_ranks, only_focus, gvars, pvars, scripts>>

\* lines 1458-1483: score and rating go to decision_summary.json
write_decision_summary ==
    /\ spc = "L1458"
    /\ decision_summary' = decision
    /\ spc' = "written"
    /\ UNCHANGED <<buckets, decision, peer_ranks, only_focus, gvars, pvars, scripts>>

\* the scoring of one run, for every focus row, every peer column and every
\* news input
ScoreNext ==
    \/ \E present \in BOOLEAN : find_primary_row(present)
    \/ \E fcf_ttm \in FcfTtmValues : score_cash_level(fcf_ttm)
    \/ \E in \in ValuationInputs : score_valuation(in[1], in[2])
    \/ \E in \in GrowthInputs : score_growth(in[1], in[2], in[3], in[4])
    \/ \E in \in QualityInputs : score_quality(in[1], in[2])
    \/ \E nd_fcf \in NetDebtValues, neg_7d \in Neg7dValues, shock_7d \in Shock7dValues,
           core_hits \in CoreHitsValues, proxy7 \in Proxy7Values :
            score_balance_risk(nd_fcf, neg_7d, shock_7d, core_hits, proxy7)
    \/ compute_decision_with_peers_and_news
    \/ \E passed \in BOOLEAN : freshness_sla(passed)
    \/ write_decision_summary

ScoreSpec == Init /\ [][ScoreNext]_vars

\* ------------------------------------------------- the Monte Carlo sampler
\* module random: one generator for the process, a state of 16 values here.
\* random.seed(seed) of line 26 sets the state from the seed alone
random_seed_kept(x, seed) == x
random_seed(x, seed) == seed % 16

\* the step of the generator at every draw
random_next(x) == (5 * x + 3) % 16

\* the square root, in whole numbers
ISqrt(x) == CHOOSE k \in 0..100 : k * k <= x /\ (k + 1) * (k + 1) > x

\* random.triangular(low, high, mode) for the draw u/16 of the generator: the
\* inverse of the distribution function, with square roots to the hundredth
triangular(low, high, mode, u) ==
    IF high = low THEN low
    ELSE LET cd == high - low
             cn == mode - low
         IN  IF u * cd > 16 * cn
             THEN high - (cd * ISqrt(((16 - u) * (cd - cn) * 10000) \div (16 * cd))) \div 100
             ELSE low + (cd * ISqrt((u * cn * 10000) \div (16 * cd))) \div 100

\* price in (None, 0) of lines 56, 72, 91 and 132
NoPrice(price) == price = NoValue \/ price = Value(0)

\* lines 53-104: the cone and the price a simulation goes on with, given what
\* the comps snapshot and the live quote hold for the ticker
SyntheticCone_live_first(m, comps_price, live_price) ==
    LET p1 == m.price
        p2 == IF NoPrice(p1) /\ live_price # NoValue THEN live_price ELSE p1
        p3 == IF NoPrice(p2) /\ comps_price # NoValue THEN comps_price ELSE p2
        p4 == IF NoPrice(p3) THEN Value(100) ELSE p3
    IN  [m EXCEPT !.price = p4,
                  !.bear = Value((p4[1] * 80) \div 100),
                  !.base = p4,
                  !.bull = Value((p4[1] * 135) \div 100),
                  !.fallback_used = TRUE,
                  !.fallback_reason =
                      IF NoPrice(p3) THEN "missing_dcf_and_price_used_default_anchor"
                      ELSE "missing_dcf_cone_price_anchored",
                  !.cone_source = "synthetic_from_price",
                  !.price_source =
                      IF NoPrice(p3) THEN "default_anchor"
                      ELSE IF NoPrice(p2) THEN "fmp_live_quote"
                      ELSE IF NoPrice(p1) THEN "comps_snapshot"
                      ELSE "decision_core",
                  !.tiers =
                      <<"decision_core">>
                      \o (IF NoPrice(p1) THEN <<"comps_snapshot">> ELSE << >>)
                      \o (IF NoPrice(p2) THEN <<"fmp_live_quote">> ELSE << >>)
                      \o (IF NoPrice(p3) THEN <<"default_anchor">> ELSE << >>)]
SyntheticCone(m, comps_price, live_price) ==
    LET p1 == m.price
        p2 == IF NoPrice(p1) /\ comps_price # NoValue THEN comps_price ELSE p1
        p3 == IF NoPrice(p2) /\ live_price # NoValue THEN live_price ELSE p2
        p4 == IF NoPrice(p3) THEN Value(100) ELSE p3
    IN  [m EXCEPT !.price = p4,
                  !.bear = Value((p4[1] * 80) \div 100),
                  !.base = p4,
                  !.bull = Value((p4[1] * 135) \div 100),
                  !.fallback_used = TRUE,
                  !.fallback_reason =
                      IF NoPrice(p3) THEN "missing_dcf_and_price_used_default_anchor"
                      ELSE "missing_dcf_cone_price_anchored",
                  !.cone_source = "synthetic_from_price",
                  !.price_source =
                      IF NoPrice(p3) THEN "default_anchor"
                      ELSE IF NoPrice(p2) THEN "fmp_live_quote"
                      ELSE IF NoPrice(p1) THEN "comps_snapshot"
                      ELSE "decision_core",
                  !.tiers =
                      <<"decision_core">>
                      \o (IF NoPrice(p1) THEN <<"comps_snapshot">> ELSE << >>)
                      \o (IF NoPrice(p2) THEN <<"fmp_live_quote">> ELSE << >>)
                      \o (IF NoPrice(p3) THEN <<"default_anchor">> ELSE << >>)]

\* lines 106-114
Graded(m) ==
    [m EXCEPT !.confidence_grade =
        IF ~m.fallback_used THEN "HIGH"
        ELSE IF m.price_source = "default_anchor" THEN "LOW"
        ELSE "MEDIUM"]

\* int(round(x)) of line 124 for x = num / 100
RoundHundredths(num) ==
    LET whole == num \div 100
        rest == num % 100
    IN  IF rest < 50 THEN whole
        ELSE IF rest > 50 THEN whole + 1
        ELSE IF whole % 2 = 0 THEN whole ELSE whole + 1

\* q(pct) of lines 123-126 on the sorted samples
Quantile(sorted, pct) ==
    LET idx == RoundHundredths(pct * (Len(sorted) - 1))
    IN  sorted[Max(0, IF idx <= Len(sorted) - 1 THEN idx ELSE Len(sorted) - 1) + 1]

\* how many samples satisfy a test
CountOf(sorted, Test(_)) == Len(SelectSeq(sorted, Test))

\* lines 130-135: the tail probabilities, in percent, or None
Tails(sorted, price) ==
    IF NoPrice(price) THEN [down |-> NoValue, up |-> NoValue]
    ELSE [down |-> Value((100 * CountOf(sorted, LAMBDA x : 100 * x <= 80 * price[1]))
                            \div Len(sorted)),
          up |-> Value((100 * CountOf(sorted, LAMBDA x : 100 * x >= 120 * price[1]))
                            \div Len(sorted))]

\* lines 121-167: the output of a simulation with the samples sims
Output(m, sims) ==
    LET sorted == SortSeq(sims, LAMBDA x, y : x < y)
        tails == Tails(sorted, m.price)
    IN  [kind |-> "montecarlo",
         p10 |-> Quantile(sorted, 10),
         p50 |-> Quantile(sorted, 50),
         p90 |-> Quantile(sorted, 90),
         prob_down_20pct |-> tails.down,
         prob_up_20pct |-> tails.up,
         price_used |-> m.price,
         fallback_used |-> m.fallback_used,
         fallback_reason |-> m.fallback_reason,
         confidence_grade |-> m.confidence_grade,
         cone_source |-> m.cone_source,
         price_source |-> m.price_source]

\* what <T>_DCF.json and the decision core give for bear, base and bull
\* (lines 41-47): nothing, a part of the cone, the whole cone
Cones ==
    {[bear |-> NoValue, base |-> NoValue, bull |-> NoValue],
     [bear |-> Value(80), base |-> NoValue, bull |-> Value(140)],
     [bear |-> Value(70), base |-> Value(100), bull |-> Value(150)]}

\* metrics.price_used of the decision core (line 38)
CorePrices == {NoValue, Value(0), Value(100), Value(0 - 100)}

\* the price of the ticker's row of comps_snapshot.csv (lines 58-70); NoValue
\* when there is no file, no row, no price in the row, or the read raises
CompsPrices == {NoValue, Value(0), Value(60)}

\* the price of the live quote (lines 74-89); NoValue when there is no key,
\* no answer, or the request raises
LivePrices == {NoValue, Value(0), Value(40)}

Ns == {1, MaxDraws}
Seeds == {7, 8}

\* lines 25-52: main(ticker, n, seed) seeds the generator and reads the files
mc_main(s, draws, seed, cone, price) ==
    /\ mc[s].pc = "idle"
    /\ rng' = random_seed(rng, seed)
    /\ mc' = [mc EXCEPT ![s] =
            [NoSim EXCEPT !.pc = "L53", !.n = draws, !.seed = seed, !.price = price,
                          !.bear = cone.bear, !.base = cone.base, !.bull = cone.bull,
                          !.tiers = <<"decision_core">>, !.core_held = price,
                          !.cone_held = cone]]
    /\ UNCHANGED <<gvars, pvars, svars, dvars, wvars>>

\* one call after the other in a process: a call starts when no other is
\* under way (lines 176-183)
mc_main_in_turn(s, draws, seed, cone, price) ==
    /\ \A t \in Sims : mc[t].pc \in {"idle", "done"}
    /\ mc_main(s, draws, seed, cone, price)

\* lines 53-114: the synthetic cone when a part of the cone is missing, and
\* the confidence grade
mc_cone(s, comps_price, live_price) ==
    /\ mc[s].pc = "L53"
    /\ LET m == mc[s]
           missing == NoValue \in {m.bear, m.base, m.bull}
       IN  mc' = [mc EXCEPT ![s] =
               [Graded(IF missing THEN SyntheticCone(m, comps_price, live_price) ELSE m)
                   EXCEPT !.pc = "L120",
                          !.comps_held =
                              IF missing /\ NoPrice(m.price) THEN comps_price ELSE NoValue,
                          !.live_held =
                              IF missing /\ NoPrice(m.price) /\ NoPrice(comps_price)
                              THEN live_price ELSE NoValue]]
    /\ UNCHANGED <<rng, gvars, pvars, svars, dvars, wvars>>

\* line 120: one random.triangular(a, b, c) of the list
mc_draw(s) ==
    /\ mc[s].pc = "L120"
    /\ Len(mc[s].sims) < mc[s].n
    /\ rng' = random_next(rng)
    /\ LET m == mc[s]
           a == Min3(m.bear[1], m.base[1], m.bull[1])
           b == Max3(m.bear[1], m.base[1], m.bull[1])
           c == m.base[1]
       IN  mc' = [mc EXCEPT ![s].sims = Append(@, triangular(a, b, c, rng'))]
    /\ UNCHANGED <<gvars, pvars, svars, dvars, wvars>>

\* lines 121-170: the list is complete; the quantiles, the tail probabilities
\* and the output file
mc_write(s) ==
    /\ mc[s].pc = "L120"
    /\ Len(mc[s].sims) = mc[s].n
    /\ mc' = [mc EXCEPT ![s].out = Output(mc[s], mc[s].sims), ![s].pc = "done"]
    /\ UNCHANGED <<rng, gvars, pvars, svars, dvars, wvars>>

\* provider_net.py line 128: random.uniform of a backoff draws from the same
\* generator
backoff_jitter ==
    /\ rng' = random_next(rng)
    /\ UNCHANGED <<mc, gvars, pvars, svars, dvars, wvars>>

\* calls of main() one after the other in one process, for every state of the
\* input files
SamplerNext ==
    \/ \E s \in Sims, draws \in Ns, seed \in Seeds, cone \in Cones, price \in CorePrices :
            mc_main_in_turn(s, draws, seed, cone, price)
    \/ \E s \in Sims, comps_price \in CompsPrices, live_price \in LivePrices :
            mc_cone(s, comps_price, live_price)
    \/ \E s \in Sims : mc_draw(s)
    \/ \E s \in Sims : mc_write(s)

SamplerSpec == Init /\ [][SamplerNext]_vars

\* the whole cone of a DCF file
WholeCone == [bear |-> Value(70), base |-> Value(100), bull |-> Value(150)]

\* two simulations of one sample each and the gateway's backoffs as threads of
\* one process, in every interleaving
ConcurrentNext ==
    \/ \E s \in Sims, seed \in Seeds : mc_main(s, 1, seed, WholeCone, Value(100))
    \/ \E s \in Sims : mc_cone(s, NoValue, NoValue)
    \/ \E s \in Sims : mc_draw(s)
    \/ \E s \in Sims : mc_write(s)
    \/ backoff_jitter

ConcurrentSpec == Init /\ [][ConcurrentNext]_vars

\* ------------------------------------------------- the DCF Monte Carlo
\* montecarlo_dcf.py, clamp (lines 12-13)
clamp(x, lo, hi) == Max(lo, IF hi <= x THEN hi ELSE x)

\* tri (lines 15-16) for the draw u/16; rates are in thousandths
tri(t, u) == triangular(t[1], t[3], t[2], u)

\* x / (1 + r) ** y, r in thousandths
RECURSIVE Discounted(_, _, _)
Discounted(x, r, y) ==
    IF y = 0 THEN x ELSE Discounted((x * 1000) \div (1000 + r), r, y - 1)

\* lines 40-46: f and pv after the years first..last growing at g
RECURSIVE Stage(_, _, _, _, _)
Stage(fpv, g, r, first, last) ==
    IF first > last THEN fpv
    ELSE LET f == (fpv.f * (1000 + g)) \div 1000
         IN  Stage([f |-> f, pv |-> fpv.pv + Discounted(f, r, first)], g, r,
                   first + 1, last)

\* line 49: the draw is dropped for its denominator
DenomTooSmall_zero_only(denom) == denom = 0
DenomTooSmall(denom) == denom <= 2

\* lines 29-61: one pass of the loop with the generator at x before it: the
\* sample kept, with the denominator it was made with, or none
Draw(a, x) ==
    LET u1 == random_next(x)
        u2 == random_next(u1)
        u3 == random_next(u2)
        u4 == random_next(u3)
        r == clamp(tri(a.disc_tri, u1), 30, 200)
        tg == clamp(tri(a.tg_tri, u2), 0 - 20, 60)
        g1 == tri(a.g1_tri, u3)
        g2 == tri(a.g2_tri, u4)
        s1 == Stage([f |-> a.fcf_ttm, pv |-> 0], g1, r, 1, a.years_1)
        s2 == Stage(s1, g2, r, a.years_1 + 1, a.years_1 + a.years_2)
        denom == r - tg
        f_terminal == (s2.f * (1000 + tg)) \div 1000
        tv == (f_terminal * 1000) \div denom
        pv == s2.pv + Discounted(tv, r, a.years_1 + a.years_2)
        equity == pv - a.net_debt
        per_share == (equity * 100) \div a.shares
    IN  IF DenomTooSmall(denom) THEN << >>
        ELSE IF a.shares <= 0 THEN << >>
        ELSE IF per_share <= 0 THEN << >>
        ELSE <<[per_share |-> per_share, denom |-> denom]>>

\* the arguments of run_mc: the triangles (lo, mode, hi) of main() (lines
\* 139-142) and triangles that let the discount rate and the terminal growth
\* meet
DiscTris == {<<80, 100, 120>>, <<30, 40, 50>>}
TgTris == {<<0, 20, 30>>, <<30, 40, 60>>}
G1Tri == <<40, 80, 120>>
G2Tri == <<20, 40, 70>>
FcfValues == {1000, 0 - 1000}
SharesValues == {0, 2}
NetDebtArgs == {0, 50000}

\* lines 22-27
run_mc(draws, seed, disc_tri, tg_tri, fcf_ttm, shares, net_debt) ==
    /\ dcf.pc = "idle"
    /\ rng' = random_seed(rng, seed)
    /\ dcf' = [NoCall EXCEPT !.pc = "L28", !.n = draws,
                 !.args = [price |-> 100, fcf_ttm |-> fcf_ttm, shares |-> shares,
                           net_debt |-> net_debt, disc_tri |-> disc_tri,
                           tg_tri |-> tg_tri, g1_tri |-> G1Tri, g2_tri |-> G2Tri,
                           years_1 |-> 1, years_2 |-> 1, seed |-> seed]]
    /\ UNCHANGED <<mc, gvars, pvars, svars, wvars>>

\* lines 28-61: one pass of the loop
run_mc_pass ==
    /\ dcf.pc = "L28"
    /\ dcf.drawn < dcf.n
    /\ rng' = random_next(random_next(random_next(random_next(rng))))
    /\ dcf' = [dcf EXCEPT !.drawn = @ + 1, !.vals = @ \o Draw(dcf.args, rng)]
    /\ UNCHANGED <<mc, gvars, pvars, svars, wvars>>

\* lines 63-105: SystemExit without samples, the result otherwise
run_mc_return ==
    /\ dcf.pc = "L28"
    /\ dcf.drawn = dcf.n
    /\ dcf' =
        IF dcf.vals = << >>
        THEN [dcf EXCEPT !.pc = "SystemExit: Monte Carlo produced no valid samples"]
        ELSE [dcf EXCEPT !.pc = "returned",
                         !.out = [kind |-> "run_mc", n_requested |-> dcf.n,
                                  n_used |-> Len(dcf.vals)]]
    /\ UNCHANGED <<rng, mc, gvars, pvars, svars, wvars>>

DcfNext ==
    \/ \E draws \in Ns, seed \in Seeds, disc_tri \in DiscTris, tg_tri \in TgTris,
           fcf_ttm \in FcfValues, shares \in SharesValues, net_debt \in NetDebtArgs :
            run_mc(draws, seed, disc_tri, tg_tri, fcf_ttm, shares, net_debt)
    \/ run_mc_pass
    \/ run_mc_return

DcfSpec == Init /\ [][DcfNext]_vars

\* ------------------------------------------------ the run-until-ready wrapper
\* --max-attempts: the default of line 129 is 0
MaxAttemptsArgs == 0..MaxAttempts

\* a counter that is told apart up to MaxAttempts
Counted(k) == IF k < MaxAttempts THEN k + 1 ELSE MaxAttempts

\* args.max_attempts > 0 and attempt >= args.max_attempts (lines 161, 200)
HitMaxAttempts(w) == w.max_attempts > 0 /\ w.attempt >= w.max_attempts

\* lines 122-152
until_ready_main(max_attempts, dns) ==
    /\ wrapper.pc = "idle"
    /\ wrapper' = [NotStarted EXCEPT !.pc = "L154", !.max_attempts = max_attempts,
                                     !.dns_preflight = dns]
    /\ UNCHANGED <<gvars, pvars, svars, mvars, dvars>>

\* lines 154-156: the head of the loop
next_attempt ==
    /\ wrapper.pc = "L154"
    /\ wrapper' = [wrapper EXCEPT !.attempt = Counted(@),
                                  !.pc = IF wrapper.dns_preflight THEN "L158" ELSE "L168"]
    /\ UNCHANGED <<gvars, pvars, svars, mvars, dvars>>

\* lines 157-166
dns_preflight(ok_dns) ==
    /\ wrapper.pc = "L158"
    /\ wrapper' = [wrapper EXCEPT !.pc =
            IF ok_dns THEN "L168"
            ELSE IF HitMaxAttempts(wrapper) THEN "return 1"
            ELSE "L165"]
    /\ UNCHANGED <<gvars, pvars, svars, mvars, dvars>>

\* lines 168-185: the updater runs as a subprocess, whatever its exit code
run_updater(returncode) ==
    /\ wrapper.pc = "L168"
    /\ wrapper' = [wrapper EXCEPT !.returncode = returncode, !.pc = "L187"]
    /\ UNCHANGED <<gvars, pvars, svars, mvars, dvars>>

\* lines 187-204
validate_outputs(ok) ==
    /\ wrapper.pc = "L187"
    /\ wrapper' = [wrapper EXCEPT !.validated = Counted(@), !.passed = ok, !.pc =
            IF ok THEN "return 0"
            ELSE IF HitMaxAttempts(wrapper) THEN "return 1"
            ELSE "L205"]
    /\ UNCHANGED <<gvars, pvars, svars, mvars, dvars>>

\* lines 165-166 and 205: time.sleep returns and the loop goes on
sleep_over ==
    /\ wrapper.pc \in {"L165", "L205"}
    /\ wrapper' = [wrapper EXCEPT !.pc = "L154"]
    /\ UNCHANGED <<gvars, pvars, svars, mvars, dvars>>

WrapperNext ==
    \/ \E max_attempts \in MaxAttemptsArgs, dns \in BOOLEAN :
            until_ready_main(max_attempts, dns)
    \/ next_attempt
    \/ \E ok_dns \in BOOLEAN : dns_preflight(ok_dns)
    \/ \E returncode \in {0, 1} : run_updater(returncode)
    \/ \E ok \in BOOLEAN : validate_outputs(ok)
    \/ sleep_over

\* the wrapper is a process that runs on: every step that can be taken is
\* taken in the end
WrapperSpec == Init /\ [][WrapperNext]_vars /\ WF_vars(WrapperNext)

\* -------------------------------------------------- properties of the quotes
\* the order of the sources
Rank(source) ==
    CASE source = "fmp_paid" -> 1
      [] source = "massive" -> 2
      [] source = "yahoo_public" -> 3
      [] source = "raw_cache" -> 4

\* the sources that precede a source in the order and are in use in this run
Earlier(source) ==
    {s \in {"fmp_paid", "massive", "yahoo_public"} :
        Rank(s) < Rank(source) /\ (s = "massive" => massive_key)}

\* the consulted source came back with rows
Produced(c) == c.rows # {}

\* C10: quote acquisition consults FMP, Massive (only with a Massive key),
\* Yahoo and the raw quote file in this order; a source is consulted only
\* after every earlier source was consulted and raised or returned no rows;
\* the first source that returns rows supplies quotes and no source is
\* consulted after it; the raw file is read only when every live adapter
\* produced nothing
C10_QuoteSourcesInOrder ==
    /\ \A j, k \in DOMAIN consulted :
          j < k => /\ Rank(consulted[j].source) < Rank(consulted[k].source)
                   /\ ~Produced(consulted[j])
    /\ \A k \in DOMAIN consulted :
          /\ consulted[k].source = "massive" => massive_key
          /\ \A s \in Earlier(consulted[k].source) :
                \E j \in 1..(k - 1) :
                    consulted[j].source = s /\ ~Produced(consulted[j])
          /\ Produced(consulted[k]) =>
                /\ quotes = consulted[k].rows
                /\ quote_provider_used = consulted[k].source
    /\ ppc = "L1081" /\ quotes # {} =>
          \E k \in DOMAIN consulted : Produced(consulted[k])

\* C10 witness: with a key configured, FMP raised, Massive returned no rows and
\* Yahoo supplied the quotes; the raw file was not read
C10_Witness ==
    /\ ppc = "L1081"
    /\ massive_key
    /\ Len(consulted) = 3
    /\ consulted[1] = Consulted("fmp_paid", Raised)
    /\ consulted[2] = Consulted("massive", Returned({}))
    /\ consulted[3].source = "yahoo_public"
    /\ quotes = Frame("yahoo", UNIVERSE)
    /\ quote_provider_used = "yahoo_public"

\* --------------------------------------------------- properties of the comps
\* the rows of the primary ticker in comps
FocusRows == SelectSeq(comps, LAMBDA r : r["ticker"] = PRIMARY)

\* the run is past _bootstrap_primary_row
Bootstrapped == ppc \in {"L1142", "L1143", "L1154"}

\* row r has the quote fields of the primary ticker (Null without a quote) and
\* no fundamentals
IsSynthesized(r) ==
    /\ r["price"] = QuoteOf(quotes, PRIMARY)
    /\ r["market_cap"] = QuoteOf(quotes, PRIMARY)
    /\ \A c \in required_cols \ {"ticker", "price", "market_cap"} : r[c] = Null

\* C11: whatever the providers do and whatever the cache files hold, the run
\* goes on from every line up to line 1154 (only an exception of a write_csv
\* ends it), and from _bootstrap_primary_row on comps has exactly one row for
\* the primary ticker: the one built from its TTM row when there is one, the
\* synthesized one (quote fields or nulls, fundamentals null) when TTM rows
\* exist for other tickers only, and the synthesized or the cached one when
\* there is no TTM row at all
C11_FocusRowAlwaysPresent ==
    /\ ppc \notin {"L1154", "raised"} => ENABLED PipelineNext
    /\ Bootstrapped =>
          /\ Len(FocusRows) = 1
          /\ PRIMARY \in DOMAIN ttm_latest =>
                FocusRows[1] = CompsRow(PRIMARY, QuoteOf(quotes, PRIMARY),
                                        ttm_latest[PRIMARY].source)
          /\ PRIMARY \notin DOMAIN ttm_latest /\ ttm_latest # << >> =>
                IsSynthesized(FocusRows[1])
          /\ ttm_latest = << >> =>
                \/ IsSynthesized(FocusRows[1])
                \/ FocusRows[1] = CompsRow(PRIMARY, "earlier_run", "earlier_run")

\* C11 witness: every quote adapter failed, every ticker's fundamentals
\* failed, there is no cache file, and comps reaches line 1154 as the one
\* synthesized row, all of it null
C11_Witness ==
    /\ ppc = "L1154"
    /\ quote_provider_used = "unavailable"
    /\ \A t \in UNIVERSE : fund_result[t] \in {"raises", "empty_series"}
    /\ fundamentals_ttm_universe = NoFile
    /\ last_good["comps_snapshot"].latest = NoTable
    /\ comps = <<CompsRow(PRIMARY, Null, Null)>>

\* the elements of a sequence
Range(seq) == {seq[k] : k \in DOMAIN seq}

\* the rows of ticker t in a comps table
RowsOf(rows, t) == SelectSeq(rows, LAMBDA r : r["ticker"] = t)

\* the fundamentals pull of ticker t failed
FundamentalsFailed(t) == fund_result[t] \in {"raises", "empty_series"}

\* the peers: the tickers of the universe but the primary
Peers == UNIVERSE \ {PRIMARY}

\* C12: when the fundamentals pull of a peer failed, the comps handed over at
\* line 1154 still has one row for every ticker of the universe, and the
\* warnings name the failed peer
C12_FailedPeerKeepsItsRow ==
    ppc = "L1154" =>
        \A p \in Peers :
            FundamentalsFailed(p) =>
                /\ \A t \in UNIVERSE : Len(RowsOf(comps, t)) = 1
                /\ ("Fundamentals refresh failed for " \o p) \in Range(refresh_warnings)

\* the loop of line 1094 is over
AfterLoop == {"L1120", "L1128", "L1141", "L1142", "L1143", "L1154", "raised"}

\* comps has been built (lines 1128-1140)
CompsBuilt == {"L1141", "L1142", "L1143", "L1154"}

\* the loop is past the k-th ticker of the universe
Processed(k) == (ppc = "L1094" /\ k < n) \/ ppc \in AfterLoop

\* C13: every ticker of the universe gets its pass of the fundamentals loop,
\* whatever the pulls of the other tickers did: a failed pull (an exception, an
\* empty quarterly series) leaves a warning naming the ticker, and a pull with
\* rows puts the ticker's live TTM row into ttm_latest and, from there, into
\* the comps of the same run
C13_TickersAreIndependent ==
    /\ \A k \in DOMAIN UniverseOrder :
          Processed(k) =>
              LET t == UniverseOrder[k] IN
                /\ fund_result[t] # "none"
                /\ FundamentalsFailed(t) =>
                      ("Fundamentals refresh failed for " \o t) \in Range(refresh_warnings)
                /\ fund_result[t] = "rows" =>
                      /\ t \in DOMAIN ttm_latest
                      /\ ttm_latest[t] = TtmRow(t, "live")
    /\ ppc \in CompsBuilt =>
          \A t \in UNIVERSE :
              fund_result[t] = "rows" =>
                  /\ Len(RowsOf(comps, t)) = 1
                  /\ RowsOf(comps, t)[1]["revenue_ttm"] = "live"

\* C13 witness: the pull of the first ticker raised, the second ticker was
\* pulled all the same and its live row is in the comps handed over
C13_Witness ==
    /\ ppc = "L1154"
    /\ fund_result[UniverseOrder[1]] = "raises"
    /\ fund_result[UniverseOrder[2]] = "rows"
    /\ Len(RowsOf(comps, UniverseOrder[2])) = 1
    /\ RowsOf(comps, UniverseOrder[2])[1]["revenue_ttm"] = "live"

\* the quote adapters
LiveAdapters == {"fmp_paid", "massive", "yahoo_public"}

\* the quote cascade is over
QuotesDone == ppc \notin {"start", "L1039", "L1048", "L1058", "L1068"}

\* the fallback steps of the quote cascade so far, in order: every adapter
\* that raised or returned no rows and, once the cascade is over without rows
\* from an adapter, the turn to the raw quote file
QuoteFallbacks ==
    LET failed == SelectSeq(consulted,
                            LAMBDA c : c.source \in LiveAdapters /\ ~Produced(c))
        adapters == [k \in 1..Len(failed) |->
                        Fallback("quote_source_failed", failed[k].source)]
    IN  IF QuotesDone /\ \A k \in DOMAIN consulted :
                            consulted[k].source \in LiveAdapters => ~Produced(consulted[k])
          THEN Append(adapters, Fallback("raw_cache", "quotes_universe_raw"))
          ELSE adapters

\* the warnings that tell of a fallback step
WarningsOf(f) ==
    CASE f.step = "quote_source_failed" /\ f.what = "fmp_paid" ->
            {"Primary quote pull failed", "Quote pull returned zero rows."}
      [] f.step = "quote_source_failed" /\ f.what = "massive" ->
            {"Massive quote fallback failed"}
      [] f.step = "quote_source_failed" /\ f.what = "yahoo_public" ->
            {"Yahoo quote fallback failed"}
      [] f.step = "raw_cache" ->
            {"Quote hydration from cache completed for full universe coverage.",
             "Quote cache exists but could not be read.",
             "Quote fallback unavailable; price/market cap may be missing."}
      [] f.step = "fundamentals_failed" ->
            {"Fundamentals refresh failed for " \o f.what}
      [] f.step = "fundamentals_recovered" ->
            {"Fundamentals for " \o f.what \o " recovered from cached TTM snapshot."}
      [] f.step = "cached_comps" ->
            {"Using cached comps_snapshot.csv due to refresh failure."}
      [] f.step = "bootstrap" ->
            {"Primary ticker " \o f.what
               \o " was missing from comps snapshot; inserted bootstrap row"
               \o " with live quote fields.",
             "Primary ticker " \o f.what
               \o " was missing from comps snapshot; inserted bootstrap row"
               \o " with null fundamentals."}
      [] f.step = "hydrated" ->
            {"Restored missing peer comps from last_good cache"}

\* every step of steps has a warning of its own in warnings, in the same order
RECURSIVE InOrder(_, _)
InOrder(steps, warnings) ==
    IF steps = << >> THEN TRUE
    ELSE IF warnings = << >> THEN FALSE
    ELSE IF Head(warnings) \in WarningsOf(Head(steps))
           THEN InOrder(Tail(steps), Tail(warnings))
           ELSE InOrder(steps, Tail(warnings))

\* C14: every fallback step taken so far (a quote adapter that raised or
\* returned no rows, the turn to the raw quote file, a ticker's fundamentals
\* failure and its recovery from the TTM cache, the use of the cached comps,
\* the bootstrap of the primary row, the hydration of peers) has left a warning
\* in refresh_warnings, in the order of the steps
C14_EveryFallbackWarns == InOrder(QuoteFallbacks \o fallbacks, refresh_warnings)

\* every row of a comps table has exactly the required columns
FullSchema(rows) == \A k \in DOMAIN rows : DOMAIN rows[k] = required_cols

\* C15: comps has the full column set for every row from line 1129 on, and so
\* has every comps_snapshot.csv the run wrote (line 1131 when the build has
\* rows, line 1143 always) and every last_good copy made of it, whether the
\* rows were built live, read from a cached file with fewer columns,
\* bootstrapped or hydrated
C15_CompsHaveAllColumns ==
    /\ ppc \in CompsBuilt => FullSchema(comps)
    /\ ppc \in CompsBuilt /\ ttm_latest # << >> =>
          comps_snapshot.kind = "csv" /\ FullSchema(comps_snapshot.rows)
    /\ ppc = "L1154" =>
          /\ comps_snapshot = TableOf(comps)
          /\ FullSchema(comps_snapshot.rows)
          /\ CoversUniverse(comps) =>
                \A copy \in {"latest", "dated"} :
                    last_good["comps_snapshot"][copy].kind = "csv" =>
                        FullSchema(last_good["comps_snapshot"][copy].rows)

\* C15 witness: comps came from a cached comps_snapshot.csv with two columns;
\* the row read from it, the bootstrapped primary row and the table written at
\* line 1143 all have the required columns, the missing ones null
C15_Witness ==
    /\ ppc = "L1154"
    /\ Len(comps) = 2
    /\ comps[1]["ticker"] = "F"
    /\ comps[1]["price"] = "earlier_run"
    /\ comps[1]["net_debt"] = Null
    /\ comps[2]["ticker"] = PRIMARY
    /\ comps_snapshot = TableOf(comps)

\* C16: with every provider healthy and unchanged upstream data, a run hands
\* over exactly one row per ticker of the universe and nothing else, the same
\* rows as the run before it, and leaves last_good/comps_snapshot_latest.csv
\* (and the dated copy) holding what it wrote to comps_snapshot.csv
C16_RerunIsIdempotent ==
    ppc = "L1154" =>
        /\ Len(comps) = Cardinality(UNIVERSE)
        /\ \A t \in UNIVERSE : Len(RowsOf(comps, t)) = 1
        /\ runs > 1 => comps = prev_comps
        /\ comps_snapshot = TableOf(comps)
        /\ last_good["comps_snapshot"].latest = comps_snapshot
        /\ last_good["comps_snapshot"].dated = comps_snapshot

\* C16 witness: the second run is over; it handed over the live rows of the
\* first run again
C16_Witness ==
    /\ ppc = "L1154"
    /\ runs = 2
    /\ prev_comps = <<CompsRow("GM", "fmp", "live"), CompsRow("F", "fmp", "live")>>
    /\ comps = prev_comps

\* the symbols of a quote frame
Symbols(q) == {r.symbol : r \in q}

\* last_good holds a latest and a dated copy of dataset d, both with rows
SnapshotOf(d, rows) ==
    \A copy \in {"latest", "dated"} :
        /\ last_good[d][copy].kind = "csv"
        /\ last_good[d][copy].rows = rows

\* the run has written the quotes of an adapter, for every ticker of the
\* universe, to quotes_universe_raw.csv
QuotesWritten ==
    /\ quote_provider_used \in LiveAdapters
    /\ quotes_universe_raw = CsvOf(quotes)
    /\ Symbols(quotes) = UNIVERSE

\* the run has written the live TTM rows of every ticker of the universe to
\* fundamentals_ttm_universe.csv
TtmWritten ==
    /\ ppc \in {"L1128"} \cup CompsBuilt
    /\ Len(all_ttm) = Cardinality(UNIVERSE)
    /\ fundamentals_ttm_universe = CsvOf(Range(all_ttm))

\* the run has written comps, with a row for every ticker of the universe, to
\* comps_snapshot.csv at line 1143
CompsWritten == ppc = "L1154" /\ CoversUniverse(comps)

\* after a successful write of a dataset for the whole universe, last_good has
\* a latest and a dated copy of what was written
FullWritesAreSnapshotted ==
    /\ QuotesWritten => SnapshotOf("quotes_universe_raw", quotes)
    /\ TtmWritten => SnapshotOf("fundamentals_ttm_universe", Range(all_ttm))
    /\ CompsWritten => SnapshotOf("comps_snapshot", comps)

\* C17: after every successful full-universe write of a dataset (quotes, TTM
\* fundamentals, comps) a latest and a dated copy of it are in last_good, and
\* the write of a comps table that is empty or misses a ticker of the universe
\* leaves the latest copy as it was
C17_FullWritesAreSnapshotted ==
    [][/\ FullWritesAreSnapshotted'
       /\ ppc = "L1143" /\ last_good'["comps_snapshot"] # last_good["comps_snapshot"] =>
             comps # << >> /\ CoversUniverse(comps)]_vars

\* C18: every row of the comps handed over and written at line 1143 belongs to
\* a ticker of the universe of the run, with at most one row per ticker,
\* whatever universe the cached files were written for
C18_CompsStayInUniverse ==
    ppc = "L1154" =>
        /\ Tickers(comps) \subseteq UNIVERSE
        /\ Tickers(comps_snapshot.rows) \subseteq UNIVERSE
        /\ \A t \in UNIVERSE : Len(RowsOf(comps, t)) <= 1

\* ------------------------------------------------- properties of the scoring
\* the decision has been returned
Scored == decision # NoDecision

\* C19: whenever compute_decision_with_peers_and_news has returned, its
\* bucket scores lie in 0..25 (cash_level), 0..20 (valuation), 0..20 (growth),
\* 0..15 (quality) and 0..20 (balance_risk), and, until the freshness check
\* has acted, the score is a whole number of 0..100 equal to the rounded sum of
\* the five clamped buckets, itself clamped to 0..100
BucketMax(k) ==
    CASE k = "cash_level" -> 25
      [] k = "quality" -> 15
      [] OTHER -> 20

C19_ScoresInRange ==
    /\ \A k \in BucketNames :
           /\ buckets[k] >= Pts(0)
           /\ buckets[k] <= Pts(BucketMax(k))
    /\ Scored =>
           /\ \A k \in BucketNames : decision.bucket_scores[k] \in 0..BucketMax(k)
           /\ decision.score \in 0..100
    /\ spc = "L1237" =>
           /\ \A k \in BucketNames : Pts(decision.bucket_scores[k]) = buckets[k]
           /\ Pts(decision.score) =
                  Max(Pts(0), IF SumOf(buckets) >= Pts(100) THEN Pts(100) ELSE SumOf(buckets))

\* a decision with every bucket at its maximum, and so a score of 100
C19_Witness ==
    /\ spc = "L1237"
    /\ \A k \in BucketNames : decision.bucket_scores[k] = BucketMax(k)
    /\ decision.score = 100

\* C20: in the decision main() holds and in the one it writes, the rating is
\* BUY from a score of 80 on, HOLD from 65 to 79 and AVOID below, whether or not
\* the freshness override has changed them
C20_RatingFollowsScore ==
    /\ Scored => decision.rating = Rating(decision.score)
    /\ decision_summary # NoDecision =>
           /\ decision_summary.rating = "BUY" <=> decision_summary.score >= 80
           /\ decision_summary.rating = "HOLD" <=>
                  (decision_summary.score >= 65 /\ decision_summary.score < 80)
           /\ decision_summary.rating = "AVOID" <=> decision_summary.score < 65

\* a BUY that the failed freshness check turned into AVOID at 45 was written
C20_Witness ==
    /\ decision_summary # NoDecision
    /\ decision_summary.rating = "AVOID"
    /\ decision_summary.score = 45
    /\ SumOf(buckets) >= Pts(80)

\* C21: when the comps hold the focus ticker alone, the scoring returns a
\* decision, the four percentile ranks are null, and valuation, growth and
\* quality hold the points of their absolute tiers only
AbsoluteOnly(b) ==
    /\ b["valuation"] \in {Pts(v) : v \in {0, 1, 3, 5, 8, 10}}
    /\ b["quality"] \in {Pts(v) : v \in {0, 1, 3, 5, 7, 9}}
    /\ b["growth"] \in {_clamp(Pts(r + f), Pts(0), Pts(20)) :
                           r \in {6, 4, 2, 0, 0 - 3}, f \in {6, 4, 2, 0, 0 - 5}}

C21_AloneHasNoRanks ==
    (only_focus /\ spc \in {"L963", "L1237", "L1458", "written"}) =>
        /\ ENABLED ScoreNext \/ spc = "written"
        /\ \A k \in RankNames : peer_ranks[k] = NoValue
        /\ AbsoluteOnly(buckets)

\* --------------------------------------------- properties of the Monte Carlo
\* two simulations got the same cone, price, n and seed
SameArguments(a, b) ==
    /\ a.n = b.n
    /\ a.seed = b.seed
    /\ a.price = b.price
    /\ a.bear = b.bear
    /\ a.base = b.base
    /\ a.bull = b.bull

Finished(s) == mc[s].pc = "done"

\* C22: two calls of the sampler, one after the other, with the same cone,
\* price, n and seed write the same p10, p50 and p90 and the same tail
\* probabilities
C22_SamplerIsDeterministic ==
    \A s \in Sims, t \in Sims :
        (Finished(s) /\ Finished(t) /\ SameArguments(mc[s], mc[t])) =>
            /\ mc[s].out.p10 = mc[t].out.p10
            /\ mc[s].out.p50 = mc[t].out.p50
            /\ mc[s].out.p90 = mc[t].out.p90
            /\ mc[s].out.prob_down_20pct = mc[t].out.prob_down_20pct
            /\ mc[s].out.prob_up_20pct = mc[t].out.prob_up_20pct

\* two finished calls with the same arguments and samples that differ from
\* one another
C22_Witness ==
    /\ Finished("A") /\ Finished("B")
    /\ SameArguments(mc["A"], mc["B"])
    /\ mc["A"].n = MaxDraws
    /\ mc["A"].out.p10 < mc["A"].out.p90

\* the tiers in their order with the price each one held, and the first tier
\* that held a price
TierOrder == <<"decision_core", "comps_snapshot", "fmp_live_quote", "default_anchor">>

Held(m) == <<m.core_held, m.comps_held, m.live_held, Value(100)>>

FirstPriced(m) == CHOOSE k \in 1..4 : ~NoPrice(Held(m)[k]) /\ \A j \in 1..(k - 1) : NoPrice(Held(m)[j])

ConeMissing(m) == NoValue \in {m.cone_held.bear, m.cone_held.base, m.cone_held.bull}

ConeSet(s) == mc[s].pc \in {"L120", "done"}

\* C23: with a part of the cone missing, the cone is 0.80, 1.00 and 1.35 times
\* the price of the first tier that holds one, in the order decision core,
\* comps snapshot, live quote, default anchor; no tier after that one is
\* consulted; fallback_used is true, price_source names the tier, and the grade
\* is LOW for the default anchor and MEDIUM otherwise. With the whole cone
\* present no tier is consulted for the cone, fallback_used is false and the
\* grade is HIGH
C23_SyntheticCone ==
    \A s \in Sims : ConeSet(s) =>
        LET m == mc[s]
            k == FirstPriced(m)
            price == Held(m)[k]
        IN  IF ConeMissing(m)
            THEN /\ m.base = price
                 /\ 100 * m.bear[1] = 80 * price[1]
                 /\ 100 * m.bull[1] = 135 * price[1]
                 /\ m.fallback_used
                 /\ m.price_source = TierOrder[k]
                 /\ m.tiers = SubSeq(TierOrder, 1, k)
                 /\ m.confidence_grade = (IF k = 4 THEN "LOW" ELSE "MEDIUM")
                 /\ Finished(s) =>
                        /\ m.out.fallback_used
                        /\ m.out.price_source = TierOrder[k]
                        /\ m.out.confidence_grade = m.confidence_grade
            ELSE /\ m.tiers = <<"decision_core">>
                 /\ <<m.bear, m.base, m.bull>> =
                        <<m.cone_held.bear, m.cone_held.base, m.cone_held.bull>>
                 /\ ~m.fallback_used
                 /\ m.confidence_grade = "HIGH"
                 /\ Finished(s) => (~m.out.fallback_used /\ m.out.confidence_grade = "HIGH")

\* a finished call whose cone was missing, whose decision core and live quote
\* held no price and whose comps snapshot held one
C23_Witness ==
    /\ Finished("A")
    /\ ConeMissing(mc["A"])
    /\ mc["A"].core_held = Value(0)
    /\ mc["A"].comps_held = Value(60)
    /\ mc["A"].out.price_source = "comps_snapshot"
    /\ mc["A"].out.confidence_grade = "MEDIUM"

\* the current price a call had: the one of the decision core, the comps
\* snapshot or the live quote, none when the default anchor stood in
CurrentPrice(m) == IF m.price_source = "default_anchor" THEN NoValue ELSE m.price

\* C24: a finished call reports prob_down_20pct and prob_up_20pct exactly when
\* it had a current price above zero; without one, or with one of zero or
\* below, both are null, also when the cone came from the default anchor
C24_TailsNeedAPrice ==
    \A s \in Sims : Finished(s) =>
        LET m == mc[s]
            priced == CurrentPrice(m) # NoValue /\ CurrentPrice(m)[1] > 0
        IN  /\ (m.out.prob_down_20pct # NoValue) <=> priced
            /\ (m.out.prob_up_20pct # NoValue) <=> priced

\* the state of the generator k draws after x
RECURSIVE Drawn(_, _)
Drawn(x, k) == IF k = 0 THEN x ELSE random_next(Drawn(x, k - 1))

\* the samples a simulation takes when nothing else draws from the generator
SimsAlone(m) ==
    [j \in 1..m.n |->
        triangular(Min3(m.bear[1], m.base[1], m.bull[1]),
                   Max3(m.bear[1], m.base[1], m.bull[1]),
                   m.base[1], Drawn(random_seed(0, m.seed), j))]

\* C26: whatever runs beside it in the process, another simulation or the
\* jitter draws of the gateway, a finished simulation has written the output
\* it writes when it runs alone with the same arguments
C26_SimulationsDoNotInterfere ==
    \A s \in Sims : Finished(s) => mc[s].out = Output(mc[s], SimsAlone(mc[s]))

\* C25: in run_mc every sample kept was made with a denominator (discount
\* rate minus terminal growth) above zero and is itself above zero; n_used is
\* the number of samples kept and at most n; and a call that kept no sample
\* ends with the 'no valid samples' SystemExit and no result
C25_BadDenominatorsAreDropped ==
    /\ \A j \in 1..Len(dcf.vals) : dcf.vals[j].denom > 0 /\ dcf.vals[j].per_share > 0
    /\ Len(dcf.vals) <= dcf.drawn
    /\ dcf.drawn <= dcf.n
    /\ dcf.pc = "returned" =>
           /\ dcf.out.n_used = Len(dcf.vals)
           /\ dcf.out.n_used >= 1
           /\ dcf.out.n_used <= dcf.out.n_requested
    /\ (dcf.pc = "L28" /\ dcf.drawn = dcf.n /\ dcf.vals = << >>) =>
           ENABLED run_mc_return
    /\ dcf.pc \notin {"idle", "L28", "returned"} =>
           /\ dcf.vals = << >>
           /\ dcf.out = NoOutput

\* a call that dropped a pass and kept another, and returned
C25_Witness ==
    /\ dcf.pc = "returned"
    /\ dcf.out.n_used >= 1
    /\ dcf.out.n_used < dcf.out.n_requested
    /\ dcf.args.shares > 0
    /\ dcf.args.net_debt = 0
    /\ dcf.args.fcf_ttm > 0

\* ------------------------------------------------ properties of the wrapper
Exited == wrapper.pc \in {"return 0", "return 1"}

Started == wrapper.pc # "idle"

\* C27: a started wrapper exits in the end, whatever max_attempts is: with
\* status 0 right after the first validation that passes, with status 1 after
\* at most max_attempts attempts otherwise
C27_WrapperExits ==
    /\ [](wrapper.pc = "return 0" => wrapper.passed)
    /\ [](wrapper.pc = "return 1" =>
             (~wrapper.passed /\ wrapper.attempt <= wrapper.max_attempts))
    /\ [](Started => <>Exited)

\* the fundamentals of ticker t were obtained in the run before: ttm_latest
\* held a row for it, pulled live or restored from the cached TTM table
ObtainedBefore(t) == runs > 1 /\ t \in DOMAIN prev_ttm_latest

\* C28: a ticker whose fundamentals were obtained in run k (live or restored
\* from cache) and whose pull fails in run k+1 is restored from the cached TTM
\* table in run k+1, whatever the pulls of the other tickers did in either run:
\* after the loop of run k+1, ttm_latest holds a row for it
C28_FailedPullIsRestored ==
    ppc \in AfterLoop =>
        \A t \in UNIVERSE :
            ObtainedBefore(t) /\ FundamentalsFailed(t) => t \in DOMAIN ttm_latest

\* _bootstrap_primary_row synthesized the row of the primary ticker in this run
BootstrappedThisRun ==
    \E k \in 1..Len(fallbacks) : fallbacks[k] = Fallback("bootstrap", PRIMARY)

\* C29: a run in which the row of the primary ticker had to be synthesized by
\* _bootstrap_primary_row leaves last_good/comps_snapshot_latest.csv as it was:
\* the step of lines 1143-1152 does not replace the latest copy with the comps
\* that hold the synthesized row
C29_BootstrapNeverSnapshotted ==
    [][ppc = "L1143" /\ BootstrappedThisRun
          => last_good'["comps_snapshot"].latest = last_good["comps_snapshot"].latest]_vars

\* ------------------------------------------- properties of the cooldown's end
\* the circuit of provider p was opened and no success has closed it since:
\* _record_success alone puts open_until_ts back to 0
OpenedAndNotClosed(p) == p \in DOMAIN _STATE /\ _STATE[p].open_until_ts # 0

\* a worker is inside _record_success for provider p, past line 74
Succeeding(p) == \E w \in Workers : provider[w] = p /\ pc[w] \in {"L75", "L76"}

\* the step is line 74 of _record_success, run for provider p
ResetBySuccess(p) ==
    \E w \in Workers : provider[w] = p /\ pc[w] = "L114" /\ pc'[w] = "L75"

\* C30: only a successful attempt takes consecutive_failures down, the passing
\* of time never does: a circuit that was opened and not closed by a success
\* keeps its counter at or above the threshold, also after the cooldown has
\* elapsed. A call whose circuit check finds the cooldown elapsed starts an
\* attempt; a failed attempt that finds the counter at or above the threshold
\* sets open_until_ts to now plus the full cooldown; a successful attempt
\* leaves the counter at 0 and open_until_ts at 0
C30_CooldownKeepsTheCounter ==
    /\ [](\A p \in Providers :
            OpenedAndNotClosed(p) /\ ~Succeeding(p)
              => _STATE[p].failures >= _CIRCUIT_FAILURE_THRESHOLD)
    /\ [][\A p \in DOMAIN _STATE :
            _STATE'[p].failures < _STATE[p].failures
              => ResetBySuccess(p) /\ _STATE'[p].failures = 0]_vars
    /\ [][\A w \in Workers :
            pc[w] = "L91" /\ pc'[w] # "L91" /\ read_until[w] <= read_now[w]
              => pc'[w] = "L114" /\ attempts'[w] = 1]_vars
    /\ [][\A w \in Workers :
            /\ pc[w] = "L84" /\ pc'[w] # "L84"
            /\ _STATE[provider[w]].failures >= _CIRCUIT_FAILURE_THRESHOLD
            => _STATE'[provider[w]].open_until_ts = now + _CIRCUIT_OPEN_SEC]_vars
    /\ [][\A w \in Workers :
            pc[w] = "L76" /\ pc'[w] = "returned"
              => /\ _STATE'[provider[w]].failures = 0
                 /\ _STATE'[provider[w]].open_until_ts = 0]_vars

\* one thread has made every call so far; the circuit had opened and its
\* cooldown has elapsed, the thread's latest call passed the circuit check and
\* made a single attempt, which failed now: the counter is above the threshold
\* and the circuit is open again for the full cooldown
C30_Witness ==
    \E w \in Workers :
        /\ \A v \in Workers \ {w} : pc[v] = "idle"
        /\ pc[w] = "failed"
        /\ attempts[w] = 1
        /\ recorded[w] = 1
        /\ now >= _CIRCUIT_OPEN_SEC
        /\ reached_at[provider[w]] = now
        /\ _STATE[provider[w]].failures > _CIRCUIT_FAILURE_THRESHOLD
        /\ _STATE[provider[w]].open_until_ts = now + _CIRCUIT_OPEN_SEC


====
